---- MODULE Spec2Model ----
(***************************************************************************)
(* State-machine model of the task/project store of taskqueue-mcp:         *)
(* src/server/TaskManagerServer.ts (class TaskManagerServer).              *)
(*                                                                         *)
(* Every public method is one pure operator that takes the manager's       *)
(* in-memory state and the backing file, and yields the new in-memory      *)
(* state, the new file and the value returned to the caller.  One action   *)
(* per method applies the operator to the state of one manager instance.   *)
(***************************************************************************)
EXTENDS Integers, Sequences, FiniteSets, TLC

\* ------------------------------------------------------------------ bounds
\* The code allocates identifiers without limit; the model stops allocating
\* at these counter values.
MaxProjId == 1
MaxTaskId == 1
\* Longest task list handed to createProject / addTasksToProject.
MaxNewTasks == 1
\* Most tasks of the project whose queue getNextTask walks.
MaxQueue == 2
\* Counter values at which the identifier allocation runs stop allocating.
MaxAllocProj == 3
MaxAllocTask == 3
\* Counter values at which the runs on a damaged file stop allocating.
MaxFileProj == 2
MaxFileTask == 1
\* Task counter at which the runs on a file system that refuses writes stop
\* allocating.
MaxSaveTask == 1
\* Task counter at which the runs over two projects stop allocating.
MaxWideTask == 2
\* Task counter at which the runs of two managers on one file stop
\* allocating.
MaxSharedTask == 1
\* Project counter at which the runs with separate load and save steps stop
\* allocating.
MaxRaceProj == 2
\* Counter values at which the runs of two allocating managers stop
\* allocating.
MaxPairProj == 2
MaxPairTask == 2

\* The tasks of the project whose tasks the approve command approves.
MaxCliTask == 2

\* The tasks of the projects that the read operations are run on.
MaxReadTask == 1

\* The tasks of the project that the workflow works off.
MaxFlowTask == 2

\* ------------------------------------------------------------------ inputs
\* JavaScript `undefined` for an omitted argument.
Undefined == "undefined"
\* A value is truthy when it is neither undefined nor the empty string.
Truthy(s) == s # Undefined /\ s # ""

\* Manager instances that may share the backing file.
Mgrs == {1, 2}

\* Task definitions handed to createProject / addTasksToProject.
TaskDefs == {[title |-> "a", description |-> "x"]}
TaskLists == UNION {[1..n -> TaskDefs] : n \in 0..MaxNewTasks}
PromptInputs == {"p"}
PlanInputs == {Undefined}
\* Arguments of updateTask and of the update tool: the text fields (none,
\* both, or an empty title), and for the tool a requested status with or
\* without completedDetails.
TextInputs ==
  {[title |-> Undefined, description |-> Undefined],
   [title |-> "b", description |-> "y"],
   [title |-> "", description |-> Undefined]}
StatusInputs == {"not started", "in progress", "done"}
DetailsInputs == {Undefined, "r"}
UpdateInputs ==
  {[title |-> x.title, description |-> x.description,
    status |-> Undefined, completedDetails |-> Undefined] : x \in TextInputs}
  \cup
  {[title |-> x.title, description |-> x.description,
    status |-> s, completedDetails |-> d] :
     x \in {y \in TextInputs : y.title # ""},
     s \in StatusInputs, d \in DetailsInputs}

\* ------------------------------------------------------------ identifiers
\* `proj-${n}` and `task-${n}`: a prefix and a number.
projId(n) == <<"proj", n>>
taskId(n) == <<"task", n>>
NaN == -1
\* Number.parseInt(id.replace(prefix + "-", ""), 10): the number when the
\* identifier carries the prefix, NaN otherwise.
parseSuffix(id, prefix) == IF id[1] = prefix THEN id[2] ELSE NaN
ProjIdInputs == {projId(n) : n \in 1..MaxProjId}
TaskIdInputs == {taskId(n) : n \in 1..MaxTaskId}

Max(S) == CHOOSE x \in S : \A y \in S : y <= x
Min(S) == CHOOSE x \in S : \A y \in S : x <= y
Range(s) == {s[i] : i \in DOMAIN s}
RemoveAt(s, i) == SubSeq(s, 1, i - 1) \o SubSeq(s, i + 1, Len(s))

\* ------------------------------------------------------------------ state
VARIABLES
  data,            \* data[m]: this.data.projects of manager m
  projectCounter,  \* projectCounter[m]
  taskCounter,     \* taskCounter[m]
  file,            \* the backing file: absent, or the JSON of a root
  result,          \* the last call: its operation and the value it returned
  autoApproveArg,  \* the autoApprove argument each project was created with
  isArray,         \* isArray[m]: this.data.projects of manager m is an array
  pending,         \* pending[m]: the call of manager m that awaits its save
  allocated        \* every identifier the file has held so far

vars == <<data, projectCounter, taskCounter, file, result, autoApproveArg,
          isArray, pending, allocated>>

\* The in-memory state of manager m as one record.
Mgr(m) == [data |-> data[m],
           isArray |-> isArray[m],
           projectCounter |-> projectCounter[m],
           taskCounter |-> taskCounter[m]]

\* --------------------------------------------------------------- the store
\* loadTasks that leaves the counters as they are.
loadTasks_KeepCounters(ms, f) ==
  IF f.kind = "json"
  THEN [ms EXCEPT !.data = f.projects, !.isArray = TRUE]
  ELSE [ms EXCEPT !.data = <<>>, !.isArray = f.kind # "emptyString"]

\* loadTasks: a readable file replaces this.data and both counters are
\* recomputed from the identifiers in it; on any error only this.data is
\* reset, the counters keep their values.  The kinds of file: "json" is the
\* JSON of a root with an array of projects; "absent", "unreadable" (readFile
\* throws), "unparseable" (JSON.parse throws) and "noProjects" (the loop over
\* data.projects throws: no such member, or one that cannot be iterated or
\* whose elements are no projects) end in the catch clause; "emptyString" is
\* the root {"projects": ""}, over which the loop runs zero times without an
\* error, so this.data.projects stays a string.
loadTasks(ms, f) ==
  IF f.kind = "json"
  THEN LET allProjectIds ==
             {parseSuffix(f.projects[i].projectId, "proj") :
                i \in DOMAIN f.projects} \ {NaN}
           allTaskIds ==
             UNION {{parseSuffix(f.projects[i].tasks[j].id, "task") :
                       j \in DOMAIN f.projects[i].tasks} :
                    i \in DOMAIN f.projects} \ {NaN}
       IN [data |-> f.projects,
           isArray |-> TRUE,
           projectCounter |->
             IF allProjectIds # {} THEN Max(allProjectIds) ELSE 0,
           taskCounter |-> IF allTaskIds # {} THEN Max(allTaskIds) ELSE 0]
  ELSE IF f.kind = "emptyString"
  THEN [data |-> <<>>, isArray |-> FALSE,
        projectCounter |-> 0, taskCounter |-> 0]
  ELSE [ms EXCEPT !.data = <<>>, !.isArray = TRUE]

\* saveTasks that keeps the projects of the file that this.data lacks.
saveTasks_KeepsOthers(ms, f) ==
  [f EXCEPT !.kind = "json",
            !.projects =
               SelectSeq(f.projects, LAMBDA p : p \notin Range(ms.data))
               \o ms.data]

\* saveTasks: the whole of this.data replaces the file's content.
saveTasks(ms, f) == [f EXCEPT !.kind = "json", !.projects = ms.data]

\* Array.prototype.findIndex on the project / task identifier; 0 (for the
\* code's -1 / undefined) when there is none, else the first match.
findProjectIndex(projects, projectId) ==
  LET S == {i \in DOMAIN projects : projects[i].projectId = projectId}
  IN IF S = {} THEN 0 ELSE Min(S)

findTaskIndex(tasks, id) ==
  LET S == {i \in DOMAIN tasks : tasks[i].id = id}
  IN IF S = {} THEN 0 ELSE Min(S)

\* New tasks that start out in progress.
newTasksFrom_InProgress(tasks, counter) ==
  [i \in 1..Len(tasks) |->
     [id |-> taskId(counter + i),
      title |-> tasks[i].title,
      description |-> tasks[i].description,
      status |-> "in progress",
      approved |-> FALSE,
      completedDetails |-> ""]]

\* The tasks built by createProject and addTasksToProject from the task
\* definitions, numbered from the task counter.
newTasksFrom(tasks, counter) ==
  [i \in 1..Len(tasks) |->
     [id |-> taskId(counter + i),
      title |-> tasks[i].title,
      description |-> tasks[i].description,
      status |-> "not started",
      approved |-> FALSE,
      completedDetails |-> ""]]

\* What a method hands back: the manager's state, the file and the value
\* returned to the caller.
Returned(ms, f, status, message) ==
  [ms |-> ms, file |-> f, ret |-> [status |-> status, message |-> message]]

\* A method that throws: the fields as they are at the throw, the file as it
\* is, and the error in place of a returned value.
Thrown(ms, f, error) == Returned(ms, f, "throws", <<error>>)

\* await this.saveTasks() followed by the return of a method that mutates.
\* writeFile fails on a file system that does not take the write (EROFS and
\* the like), saveTasks rethrows and the method never reaches its return.
Saved_Swallowed(ms, f, status, message) ==
  Returned(ms, IF f.readOnly THEN f ELSE saveTasks(ms, f), status, message)

Saved(ms, f, status, message) ==
  IF f.readOnly
  THEN Thrown(ms, f, "EROFS")
  ELSE Returned(ms, saveTasks(ms, f), status, message)

\* ---------------------------------------------------------------- methods
\* What getNextTask hands back: as Returned, with the task it names (its id,
\* title and description) as a sequence of one element, empty when the
\* returned object has no task.
ReturnedTask(ms, f, status, message, task) ==
  [ms |-> ms, file |-> f,
   ret |-> [status |-> status, message |-> message, task |-> task]]

\* Array.prototype.find on the status: the index of the first task that is
\* not done, 0 when every task is done.
findNotDone(tasks) ==
  LET S == {i \in DOMAIN tasks : tasks[i].status # "done"}
  IN IF S = {} THEN 0 ELSE Min(S)

\* getNextTask that hands back the first task of the project whatever its
\* status.
getNextTask_FirstTask(ms0, f, projectId) ==
  LET ms == loadTasks(ms0, f)
      p == findProjectIndex(ms.data, projectId)
  IN IF ~ms.isArray THEN ReturnedTask(ms, f, "throws", <<"TypeError">>, <<>>)
     ELSE IF p = 0 THEN ReturnedTask(ms, f, "error", <<"Project not found">>, <<>>)
     ELSE IF ms.data[p].completed
     THEN ReturnedTask(ms, f, "already_completed",
                       <<"Project already completed.">>, <<>>)
     ELSE IF Len(ms.data[p].tasks) = 0
     THEN ReturnedTask(ms, f, "all_tasks_done",
                       <<"All tasks have been completed.">>, <<>>)
     ELSE LET nextTask == ms.data[p].tasks[1]
          IN ReturnedTask(ms, f, "next_task", <<"Next task is ready.">>,
                          <<[id |-> nextTask.id, title |-> nextTask.title,
                             description |-> nextTask.description]>>)

\* getNextTask that saves what it loaded before it answers.
getNextTask_Saves(ms0, f, projectId) ==
  LET ms == loadTasks(ms0, f)
      p == findProjectIndex(ms.data, projectId)
      n == IF p = 0 THEN 0 ELSE findNotDone(ms.data[p].tasks)
      f2 == saveTasks(ms, f)
  IN IF ~ms.isArray THEN ReturnedTask(ms, f, "throws", <<"TypeError">>, <<>>)
     ELSE IF p = 0
     THEN ReturnedTask(ms, f2, "error", <<"Project not found">>, <<>>)
     ELSE IF ms.data[p].completed
     THEN ReturnedTask(ms, f2, "already_completed",
                       <<"Project already completed.">>, <<>>)
     ELSE IF n = 0
     THEN ReturnedTask(ms, f2, "all_tasks_done",
                       <<"All tasks have been completed.">>, <<>>)
     ELSE LET nextTask == ms.data[p].tasks[n]
          IN ReturnedTask(ms, f2, "next_task", <<"Next task is ready.">>,
                          <<[id |-> nextTask.id, title |-> nextTask.title,
                             description |-> nextTask.description]>>)

getNextTask(ms0, f, projectId) ==
  LET ms == loadTasks(ms0, f)
      p == findProjectIndex(ms.data, projectId)
      n == IF p = 0 THEN 0 ELSE findNotDone(ms.data[p].tasks)
      allDone ==
        \A t \in DOMAIN ms.data[p].tasks : ms.data[p].tasks[t].status = "done"
  IN IF ~ms.isArray THEN ReturnedTask(ms, f, "throws", <<"TypeError">>, <<>>)
     ELSE IF p = 0 THEN ReturnedTask(ms, f, "error", <<"Project not found">>, <<>>)
     ELSE IF ms.data[p].completed
     THEN ReturnedTask(ms, f, "already_completed",
                       <<"Project already completed.">>, <<>>)
     ELSE IF n = 0
     THEN IF allDone /\ ~ms.data[p].completed
          THEN ReturnedTask(ms, f, "all_tasks_done",
                            <<"All tasks have been completed.">>, <<>>)
          ELSE ReturnedTask(ms, f, "no_next_task",
                            <<"No undone tasks found.">>, <<>>)
     ELSE LET nextTask == ms.data[p].tasks[n]
          IN ReturnedTask(ms, f, "next_task", <<"Next task is ready.">>,
                          <<[id |-> nextTask.id, title |-> nextTask.title,
                             description |-> nextTask.description]>>)

\* createProject with a project that starts out completed.
createProject_StartsCompleted(ms0, f, initialPrompt, tasks, projectPlan) ==
  LET ms == loadTasks(ms0, f)
      counter == ms.projectCounter + 1
      newTasks == newTasksFrom(tasks, ms.taskCounter)
      proj == [projectId |-> projId(counter),
               initialPrompt |-> initialPrompt,
               projectPlan |->
                 IF Truthy(projectPlan) THEN projectPlan ELSE initialPrompt,
               tasks |-> newTasks,
               completed |-> TRUE]
      counted == [ms EXCEPT !.projectCounter = counter,
                            !.taskCounter = @ + Len(tasks)]
      ms2 == [counted EXCEPT !.data = Append(@, proj)]
  IN IF ~ms.isArray THEN Thrown(counted, f, "TypeError")
     ELSE Saved(ms2, f, "planned", <<"Tasks have been successfully added.">>)

createProject(ms0, f, initialPrompt, tasks, projectPlan) ==
  LET ms == loadTasks(ms0, f)
      counter == ms.projectCounter + 1
      newTasks == newTasksFrom(tasks, ms.taskCounter)
      proj == [projectId |-> projId(counter),
               initialPrompt |-> initialPrompt,
               projectPlan |->
                 IF Truthy(projectPlan) THEN projectPlan ELSE initialPrompt,
               tasks |-> newTasks,
               completed |-> FALSE]
      counted == [ms EXCEPT !.projectCounter = counter,
                            !.taskCounter = @ + Len(tasks)]
      ms2 == [counted EXCEPT !.data = Append(@, proj)]
  IN IF ~ms.isArray THEN Thrown(counted, f, "TypeError")
     ELSE Saved(ms2, f, "planned", <<"Tasks have been successfully added.">>)

\* handleProjectTool, case "create": initialPrompt, tasks and projectPlan are
\* taken from the arguments and handed to createProject; any other argument
\* is dropped.
handleProjectToolCreate(ms, f, args) ==
  createProject(ms, f, args.initialPrompt, args.tasks, args.projectPlan)

markTaskDone(ms0, f, projectId, id, completedDetails) ==
  LET ms == loadTasks(ms0, f)
      p == findProjectIndex(ms.data, projectId)
      t == IF p = 0 THEN 0 ELSE findTaskIndex(ms.data[p].tasks, id)
  IN IF ~ms.isArray THEN Thrown(ms, f, "TypeError")
     ELSE IF p = 0 THEN Returned(ms, f, "error", <<"Project not found">>)
     ELSE IF t = 0 THEN Returned(ms, f, "error", <<"Task not found">>)
     ELSE IF ms.data[p].tasks[t].status = "done"
     THEN Returned(ms, f, "already_done", <<"Task is already marked done.">>)
     ELSE LET ms2 ==
                [ms EXCEPT
                   !.data[p].tasks[t].status = "done",
                   !.data[p].tasks[t].completedDetails =
                      IF Truthy(completedDetails) THEN completedDetails ELSE ""]
          IN Saved(ms2, f, "task_marked_done", <<>>)

\* approveTaskCompletion without its test that the task is done.
approveTaskCompletion_NoDoneCheck(ms0, f, projectId, id) ==
  LET ms == loadTasks(ms0, f)
      p == findProjectIndex(ms.data, projectId)
      t == IF p = 0 THEN 0 ELSE findTaskIndex(ms.data[p].tasks, id)
  IN IF ~ms.isArray THEN Thrown(ms, f, "TypeError")
     ELSE IF p = 0 THEN Returned(ms, f, "error", <<"Project not found">>)
     ELSE IF t = 0 THEN Returned(ms, f, "error", <<"Task not found">>)
     ELSE IF ms.data[p].tasks[t].approved
     THEN Returned(ms, f, "already_approved", <<"Task already approved.">>)
     ELSE LET ms2 == [ms EXCEPT !.data[p].tasks[t].approved = TRUE]
          IN Saved(ms2, f, "task_approved", <<>>)

\* approveTaskCompletion without its test that the task is already approved.
approveTaskCompletion_NoApprovedCheck(ms0, f, projectId, id) ==
  LET ms == loadTasks(ms0, f)
      p == findProjectIndex(ms.data, projectId)
      t == IF p = 0 THEN 0 ELSE findTaskIndex(ms.data[p].tasks, id)
  IN IF ~ms.isArray THEN Thrown(ms, f, "TypeError")
     ELSE IF p = 0 THEN Returned(ms, f, "error", <<"Project not found">>)
     ELSE IF t = 0 THEN Returned(ms, f, "error", <<"Task not found">>)
     ELSE IF ms.data[p].tasks[t].status # "done"
     THEN Returned(ms, f, "error", <<"Task not done yet.">>)
     ELSE LET ms2 == [ms EXCEPT !.data[p].tasks[t].approved = TRUE]
          IN Saved(ms2, f, "task_approved", <<>>)

\* approveTaskCompletion that approves every done task of the project.
approveTaskCompletion_ApprovesAll(ms0, f, projectId, id) ==
  LET ms == loadTasks(ms0, f)
      p == findProjectIndex(ms.data, projectId)
      t == IF p = 0 THEN 0 ELSE findTaskIndex(ms.data[p].tasks, id)
  IN IF ~ms.isArray THEN Thrown(ms, f, "TypeError")
     ELSE IF p = 0 THEN Returned(ms, f, "error", <<"Project not found">>)
     ELSE IF t = 0 THEN Returned(ms, f, "error", <<"Task not found">>)
     ELSE IF ms.data[p].tasks[t].status # "done"
     THEN Returned(ms, f, "error", <<"Task not done yet.">>)
     ELSE IF ms.data[p].tasks[t].approved
     THEN Returned(ms, f, "already_approved", <<"Task already approved.">>)
     ELSE LET ms2 == [ms EXCEPT !.data[p].tasks =
                        [i \in DOMAIN @ |->
                           IF @[i].status = "done"
                           THEN [@[i] EXCEPT !.approved = TRUE] ELSE @[i]]]
          IN Saved(ms2, f, "task_approved", <<>>)

approveTaskCompletion(ms0, f, projectId, id) ==
  LET ms == loadTasks(ms0, f)
      p == findProjectIndex(ms.data, projectId)
      t == IF p = 0 THEN 0 ELSE findTaskIndex(ms.data[p].tasks, id)
  IN IF ~ms.isArray THEN Thrown(ms, f, "TypeError")
     ELSE IF p = 0 THEN Returned(ms, f, "error", <<"Project not found">>)
     ELSE IF t = 0 THEN Returned(ms, f, "error", <<"Task not found">>)
     ELSE IF ms.data[p].tasks[t].status # "done"
     THEN Returned(ms, f, "error", <<"Task not done yet.">>)
     ELSE IF ms.data[p].tasks[t].approved
     THEN Returned(ms, f, "already_approved", <<"Task already approved.">>)
     ELSE LET ms2 == [ms EXCEPT !.data[p].tasks[t].approved = TRUE]
          IN Saved(ms2, f, "task_approved", <<>>)

\* approveProjectCompletion without its test that every task is approved.
approveProjectCompletion_NoApprovedCheck(ms0, f, projectId) ==
  LET ms == loadTasks(ms0, f)
      p == findProjectIndex(ms.data, projectId)
      allDone ==
        \A t \in DOMAIN ms.data[p].tasks : ms.data[p].tasks[t].status = "done"
  IN IF ~ms.isArray THEN Thrown(ms, f, "TypeError")
     ELSE IF p = 0 THEN Returned(ms, f, "error", <<"Project not found">>)
     ELSE IF ~allDone THEN Returned(ms, f, "error", <<"Not all tasks are done.">>)
     ELSE LET ms2 == [ms EXCEPT !.data[p].completed = TRUE]
          IN Saved(ms2, f, "project_approved_complete",
                      <<"Project is fully completed and approved.">>)

\* approveProjectCompletion that marks the project completed and saves
\* before it tests the tasks.
approveProjectCompletion_SavesFirst(ms0, f, projectId) ==
  LET ms == loadTasks(ms0, f)
      p == findProjectIndex(ms.data, projectId)
      allDone ==
        \A t \in DOMAIN ms.data[p].tasks : ms.data[p].tasks[t].status = "done"
      allApproved ==
        \A t \in DOMAIN ms.data[p].tasks :
           ms.data[p].tasks[t].status = "done" /\ ms.data[p].tasks[t].approved
  IN IF ~ms.isArray THEN Thrown(ms, f, "TypeError")
     ELSE IF p = 0 THEN Returned(ms, f, "error", <<"Project not found">>)
     ELSE LET ms2 == [ms EXCEPT !.data[p].completed = TRUE]
          IN IF ~allDone
             THEN Saved(ms2, f, "error", <<"Not all tasks are done.">>)
             ELSE IF ~allApproved
             THEN Saved(ms2, f, "error",
                        <<"Not all done tasks are approved.">>)
             ELSE Saved(ms2, f, "project_approved_complete",
                        <<"Project is fully completed and approved.">>)

approveProjectCompletion(ms0, f, projectId) ==
  LET ms == loadTasks(ms0, f)
      p == findProjectIndex(ms.data, projectId)
      allDone ==
        \A t \in DOMAIN ms.data[p].tasks : ms.data[p].tasks[t].status = "done"
      allApproved ==
        \A t \in DOMAIN ms.data[p].tasks :
           ms.data[p].tasks[t].status = "done" /\ ms.data[p].tasks[t].approved
  IN IF ~ms.isArray THEN Thrown(ms, f, "TypeError")
     ELSE IF p = 0 THEN Returned(ms, f, "error", <<"Project not found">>)
     ELSE IF ~allDone THEN Returned(ms, f, "error", <<"Not all tasks are done.">>)
     ELSE IF ~allApproved
     THEN Returned(ms, f, "error", <<"Not all done tasks are approved.">>)
     ELSE LET ms2 == [ms EXCEPT !.data[p].completed = TRUE]
          IN Saved(ms2, f, "project_approved_complete",
                      <<"Project is fully completed and approved.">>)

\* addTasksToProject without its test that the project is completed.
addTasksToProject_NoCompletedCheck(ms0, f, projectId, tasks) ==
  LET ms == loadTasks(ms0, f)
      p == findProjectIndex(ms.data, projectId)
  IN IF ~ms.isArray THEN Thrown(ms, f, "TypeError")
     ELSE IF p = 0 THEN Returned(ms, f, "error", <<"Project not found">>)
     ELSE LET newTasks == newTasksFrom(tasks, ms.taskCounter)
              ms2 == [ms EXCEPT
                        !.data[p].tasks = @ \o newTasks,
                        !.taskCounter = @ + Len(tasks)]
          IN Saved(ms2, f, "tasks_added",
                      <<"Added new tasks to project.">>)

\* addTasksToProject that puts the new tasks before the existing ones.
addTasksToProject_Prepends(ms0, f, projectId, tasks) ==
  LET ms == loadTasks(ms0, f)
      p == findProjectIndex(ms.data, projectId)
  IN IF ~ms.isArray THEN Thrown(ms, f, "TypeError")
     ELSE IF p = 0 THEN Returned(ms, f, "error", <<"Project not found">>)
     ELSE IF ms.data[p].completed
     THEN Returned(ms, f, "error", <<"Cannot add tasks to completed project">>)
     ELSE LET newTasks == newTasksFrom(tasks, ms.taskCounter)
              ms2 == [ms EXCEPT
                        !.data[p].tasks = newTasks \o @,
                        !.taskCounter = @ + Len(tasks)]
          IN Saved(ms2, f, "tasks_added",
                      <<"Added new tasks to project.">>)

addTasksToProject(ms0, f, projectId, tasks) ==
  LET ms == loadTasks(ms0, f)
      p == findProjectIndex(ms.data, projectId)
  IN IF ~ms.isArray THEN Thrown(ms, f, "TypeError")
     ELSE IF p = 0 THEN Returned(ms, f, "error", <<"Project not found">>)
     ELSE IF ms.data[p].completed
     THEN Returned(ms, f, "error", <<"Cannot add tasks to completed project">>)
     ELSE LET newTasks == newTasksFrom(tasks, ms.taskCounter)
              ms2 == [ms EXCEPT
                        !.data[p].tasks = @ \o newTasks,
                        !.taskCounter = @ + Len(tasks)]
          IN Saved(ms2, f, "tasks_added",
                      <<"Added new tasks to project.">>)

\* updateTask without its test that the task is done.
updateTask_NoDoneCheck(ms0, f, projectId, id, title, description) ==
  LET ms == loadTasks(ms0, f)
      p == findProjectIndex(ms.data, projectId)
      t == IF p = 0 THEN 0 ELSE findTaskIndex(ms.data[p].tasks, id)
  IN IF ~ms.isArray THEN Thrown(ms, f, "TypeError")
     ELSE IF p = 0 THEN Returned(ms, f, "error", <<"Project not found">>)
     ELSE IF t = 0 THEN Returned(ms, f, "error", <<"Task not found">>)
     ELSE LET task == ms.data[p].tasks[t]
              ms2 == [ms EXCEPT
                        !.data[p].tasks[t].title =
                           IF Truthy(title) THEN title ELSE task.title,
                        !.data[p].tasks[t].description =
                           IF Truthy(description) THEN description
                           ELSE task.description]
          IN Saved(ms2, f, "task_updated", <<>>)

updateTask(ms0, f, projectId, id, title, description) ==
  LET ms == loadTasks(ms0, f)
      p == findProjectIndex(ms.data, projectId)
      t == IF p = 0 THEN 0 ELSE findTaskIndex(ms.data[p].tasks, id)
  IN IF ~ms.isArray THEN Thrown(ms, f, "TypeError")
     ELSE IF p = 0 THEN Returned(ms, f, "error", <<"Project not found">>)
     ELSE IF t = 0 THEN Returned(ms, f, "error", <<"Task not found">>)
     ELSE IF ms.data[p].tasks[t].status = "done"
     THEN Returned(ms, f, "error", <<"Cannot update completed task">>)
     ELSE LET task == ms.data[p].tasks[t]
              ms2 == [ms EXCEPT
                        !.data[p].tasks[t].title =
                           IF Truthy(title) THEN title ELSE task.title,
                        !.data[p].tasks[t].description =
                           IF Truthy(description) THEN description
                           ELSE task.description]
          IN Saved(ms2, f, "task_updated", <<>>)

\* deleteTask without its test that the task is done.
deleteTask_NoDoneCheck(ms0, f, projectId, id) ==
  LET ms == loadTasks(ms0, f)
      p == findProjectIndex(ms.data, projectId)
      taskIndex == IF p = 0 THEN 0 ELSE findTaskIndex(ms.data[p].tasks, id)
  IN IF ~ms.isArray THEN Thrown(ms, f, "TypeError")
     ELSE IF p = 0 THEN Returned(ms, f, "error", <<"Project not found">>)
     ELSE IF taskIndex = 0 THEN Returned(ms, f, "error", <<"Task not found">>)
     ELSE LET ms2 == [ms EXCEPT !.data[p].tasks = RemoveAt(@, taskIndex)]
          IN Saved(ms2, f, "task_deleted", <<>>)

\* deleteTask that removes the first task of the project.
deleteTask_RemovesFirst(ms0, f, projectId, id) ==
  LET ms == loadTasks(ms0, f)
      p == findProjectIndex(ms.data, projectId)
      taskIndex == IF p = 0 THEN 0 ELSE findTaskIndex(ms.data[p].tasks, id)
  IN IF ~ms.isArray THEN Thrown(ms, f, "TypeError")
     ELSE IF p = 0 THEN Returned(ms, f, "error", <<"Project not found">>)
     ELSE IF taskIndex = 0 THEN Returned(ms, f, "error", <<"Task not found">>)
     ELSE IF ms.data[p].tasks[taskIndex].status = "done"
     THEN Returned(ms, f, "error", <<"Cannot delete completed task">>)
     ELSE LET ms2 == [ms EXCEPT !.data[p].tasks = RemoveAt(@, 1)]
          IN Saved(ms2, f, "task_deleted", <<>>)

\* deleteTask that looks the task up in every project once the project it
\* was given exists.
deleteTask_AnyProject(ms0, f, projectId, id) ==
  LET ms == loadTasks(ms0, f)
      p == findProjectIndex(ms.data, projectId)
      holders == {q \in DOMAIN ms.data : findTaskIndex(ms.data[q].tasks, id) # 0}
      h == IF holders = {} THEN 0 ELSE Min(holders)
      taskIndex == IF h = 0 THEN 0 ELSE findTaskIndex(ms.data[h].tasks, id)
  IN IF ~ms.isArray THEN Thrown(ms, f, "TypeError")
     ELSE IF p = 0 THEN Returned(ms, f, "error", <<"Project not found">>)
     ELSE IF taskIndex = 0 THEN Returned(ms, f, "error", <<"Task not found">>)
     ELSE IF ms.data[h].tasks[taskIndex].status = "done"
     THEN Returned(ms, f, "error", <<"Cannot delete completed task">>)
     ELSE LET ms2 == [ms EXCEPT !.data[h].tasks = RemoveAt(@, taskIndex)]
          IN Saved(ms2, f, "task_deleted", <<>>)

deleteTask(ms0, f, projectId, id) ==
  LET ms == loadTasks(ms0, f)
      p == findProjectIndex(ms.data, projectId)
      taskIndex == IF p = 0 THEN 0 ELSE findTaskIndex(ms.data[p].tasks, id)
  IN IF ~ms.isArray THEN Thrown(ms, f, "TypeError")
     ELSE IF p = 0 THEN Returned(ms, f, "error", <<"Project not found">>)
     ELSE IF taskIndex = 0 THEN Returned(ms, f, "error", <<"Task not found">>)
     ELSE IF ms.data[p].tasks[taskIndex].status = "done"
     THEN Returned(ms, f, "error", <<"Cannot delete completed task">>)
     ELSE LET ms2 == [ms EXCEPT !.data[p].tasks = RemoveAt(@, taskIndex)]
          IN Saved(ms2, f, "task_deleted", <<>>)

\* ---------------------------------------------------------------- listings
\* The --state option of the list command, and the state argument of
\* listTasks.
StateFilters == {"open", "pending_approval", "completed"}
StateOptions == {Undefined, "all"} \cup StateFilters

\* An omitted projectId argument.
NoProject == <<>>

\* What a listing hands back: as Returned, with the tasks listed, each with
\* the identifier of its project.
ReturnedList(ms, f, status, message, tasks) ==
  [ms |-> ms, file |-> f,
   ret |-> [status |-> status, message |-> message, tasks |-> tasks]]

Listed(projectId, tasks) ==
  [i \in DOMAIN tasks |-> [projectId |-> projectId, task |-> tasks[i]]]

\* The task filter of the list command with pending_approval keeping every
\* done task.
tasksToList_PendingAnyDone(tasks, filterState) ==
  IF Truthy(filterState)
  THEN SelectSeq(tasks,
         LAMBDA task :
           CASE filterState = "open" -> task.status # "done"
             [] filterState = "pending_approval" -> task.status = "done"
             [] filterState = "completed" ->
                  task.status = "done" /\ task.approved
             [] OTHER -> TRUE)
  ELSE tasks

\* The task filter of the list command: the tasks of the project that the
\* state filter keeps, all of them when there is no filter.
tasksToList(tasks, filterState) ==
  IF Truthy(filterState)
  THEN SelectSeq(tasks,
         LAMBDA task :
           CASE filterState = "open" -> task.status # "done"
             [] filterState = "pending_approval" ->
                  task.status = "done" /\ ~task.approved
             [] filterState = "completed" ->
                  task.status = "done" /\ task.approved
             [] OTHER -> TRUE)
  ELSE tasks

\* readProject of the manager the list command runs on: the stored project
\* with the given identifier, read from the file.
readProject(ms0, f, projectId) ==
  LET ms == loadTasks(ms0, f)
      p == findProjectIndex(ms.data, projectId)
  IN IF p = 0
     THEN ReturnedList(ms, f, "error", <<"Project not found">>, <<>>)
     ELSE ReturnedList(ms, f, "success", <<>>, ms.data[p].tasks)

\* The list command with --project: --state all or no --state is no filter;
\* the project is read and its tasks are filtered.
listCommand(ms0, f, projectId, stateOption) ==
  LET filterState ==
        IF stateOption = "all" \/ ~Truthy(stateOption)
        THEN Undefined ELSE stateOption
      projectResponse == readProject(ms0, f, projectId)
  IN IF projectResponse.ret.status # "success"
     THEN projectResponse
     ELSE ReturnedList(projectResponse.ms, f, "success", <<>>,
            Listed(projectId,
                   tasksToList(projectResponse.ret.tasks, filterState)))

\* The tasks of a list of projects that a state filter keeps, project after
\* project.
RECURSIVE tasksOfProjects(_, _)
tasksOfProjects(projects, state) ==
  IF projects = <<>> THEN <<>>
  ELSE Listed(projects[1].projectId, tasksToList(projects[1].tasks, state))
       \o tasksOfProjects(Tail(projects), state)

\* listTasks of the manager: the tasks of one project, or of every project
\* when no project is named, that are in the given state; every task when no
\* state is given.
listTasks(ms0, f, projectId, state) ==
  LET ms == loadTasks(ms0, f)
      p == findProjectIndex(ms.data, projectId)
  IN IF projectId = NoProject
     THEN ReturnedList(ms, f, "success", <<>>, tasksOfProjects(ms.data, state))
     ELSE IF p = 0
     THEN ReturnedList(ms, f, "error", <<"Project not found">>, <<>>)
     ELSE ReturnedList(ms, f, "success", <<>>,
                       tasksOfProjects(<<ms.data[p]>>, state))

\* handleProjectTool, case "delete": works on this.data as it is in memory.
handleProjectToolDelete(ms, f, projectId) ==
  LET projectIndex == findProjectIndex(ms.data, projectId)
  IN IF ~ms.isArray THEN Thrown(ms, f, "TypeError")
     ELSE IF projectIndex = 0 THEN Returned(ms, f, "error", <<"Project not found">>)
     ELSE LET ms2 == [ms EXCEPT !.data = RemoveAt(@, projectIndex)]
          IN Saved(ms2, f, "project_deleted", <<>>)

\* The transition table of the update tool: the statuses that may follow a
\* status, as the arrays of the code.
\* The table with done added after not started.
validNextStates_Direct(status) ==
  CASE status = "not started" -> <<"in progress", "done">>
    [] status = "in progress" -> <<"done", "not started">>
    [] status = "done" -> <<"in progress">>
    [] OTHER -> <<>>

\* The table without done after in progress.
validNextStates_NoFinish(status) ==
  CASE status = "not started" -> <<"in progress">>
    [] status = "in progress" -> <<"not started">>
    [] status = "done" -> <<"in progress">>
    [] OTHER -> <<>>

validNextStates(status) ==
  CASE status = "not started" -> <<"in progress">>
    [] status = "in progress" -> <<"done", "not started">>
    [] status = "done" -> <<"in progress">>
    [] OTHER -> <<>>

\* The assignments of the update tool with approved set along with done.
applyTaskUpdate_ApprovesDone(ms, f, p, t, title, description, status, completedDetails) ==
  LET task == ms.data[p].tasks[t]
      allowedTransitions == validNextStates(task.status)
  IN IF status # Undefined /\ task.status # status
        /\ status \notin Range(allowedTransitions)
     THEN Returned(ms, f, "error",
                   <<"Invalid status transition", task.status, status,
                     "Allowed transitions:">> \o allowedTransitions)
     ELSE IF status = "done" /\ ~Truthy(completedDetails)
     THEN Returned(ms, f, "error",
                   <<"completedDetails is required when setting status to 'done'">>)
     ELSE LET ms2 ==
                [ms EXCEPT
                   !.data[p].tasks[t].completedDetails =
                      IF status = "done" THEN completedDetails ELSE @,
                   !.data[p].tasks[t].approved =
                      IF status = "done" THEN TRUE ELSE @,
                   !.data[p].tasks[t].title =
                      IF Truthy(title) THEN title ELSE @,
                   !.data[p].tasks[t].description =
                      IF Truthy(description) THEN description ELSE @,
                   !.data[p].tasks[t].status =
                      IF Truthy(status) THEN status ELSE @]
          IN Saved(ms2, f, "task_updated", <<>>)

\* The update tool assigning title and description to the task before it
\* validates the requested status.
applyTaskUpdate_TitleFirst(ms0, f, p, t, title, description, status, completedDetails) ==
  LET ms == [ms0 EXCEPT
               !.data[p].tasks[t].title =
                  IF Truthy(title) THEN title ELSE @,
               !.data[p].tasks[t].description =
                  IF Truthy(description) THEN description ELSE @]
      task == ms.data[p].tasks[t]
      allowedTransitions == validNextStates(task.status)
  IN IF status # Undefined /\ task.status # status
        /\ status \notin Range(allowedTransitions)
     THEN Returned(ms, f, "error",
                   <<"Invalid status transition", task.status, status,
                     "Allowed transitions:">> \o allowedTransitions)
     ELSE IF status = "done" /\ ~Truthy(completedDetails)
     THEN Returned(ms, f, "error",
                   <<"completedDetails is required when setting status to 'done'">>)
     ELSE LET ms2 ==
                [ms EXCEPT
                   !.data[p].tasks[t].completedDetails =
                      IF status = "done" THEN completedDetails ELSE @,
                   !.data[p].tasks[t].status =
                      IF Truthy(status) THEN status ELSE @]
          IN Saved(ms2, f, "task_updated", <<>>)

\* handleTaskTool, case "update", once the project and the task are found and
\* the task is not approved: validation of the requested status, then the
\* assignments.
applyTaskUpdate(ms, f, p, t, title, description, status, completedDetails) ==
  LET task == ms.data[p].tasks[t]
      allowedTransitions == validNextStates(task.status)
  IN IF status # Undefined /\ task.status # status
        /\ status \notin Range(allowedTransitions)
     THEN Returned(ms, f, "error",
                   <<"Invalid status transition", task.status, status,
                     "Allowed transitions:">> \o allowedTransitions)
     ELSE IF status = "done" /\ ~Truthy(completedDetails)
     THEN Returned(ms, f, "error",
                   <<"completedDetails is required when setting status to 'done'">>)
     ELSE LET ms2 ==
                [ms EXCEPT
                   !.data[p].tasks[t].completedDetails =
                      IF status = "done" THEN completedDetails ELSE @,
                   !.data[p].tasks[t].title =
                      IF Truthy(title) THEN title ELSE @,
                   !.data[p].tasks[t].description =
                      IF Truthy(description) THEN description ELSE @,
                   !.data[p].tasks[t].status =
                      IF Truthy(status) THEN status ELSE @]
          IN Saved(ms2, f, "task_updated", <<>>)

\* The update tool without its test that the task is approved.
handleTaskToolUpdate_NoApprovedCheck(ms, f, projectId, id, title, description, status, completedDetails) ==
  LET p == findProjectIndex(ms.data, projectId)
      t == IF p = 0 THEN 0 ELSE findTaskIndex(ms.data[p].tasks, id)
  IN IF ~ms.isArray THEN Thrown(ms, f, "TypeError")
     ELSE IF p = 0 THEN Returned(ms, f, "error", <<"Project not found:">>)
     ELSE IF t = 0 THEN Returned(ms, f, "error", <<"Task not found:">>)
     ELSE applyTaskUpdate(ms, f, p, t, title, description, status,
                          completedDetails)

\* handleTaskTool, case "update": works on this.data as it is in memory.
handleTaskToolUpdate(ms, f, projectId, id, title, description, status, completedDetails) ==
  LET p == findProjectIndex(ms.data, projectId)
      t == IF p = 0 THEN 0 ELSE findTaskIndex(ms.data[p].tasks, id)
  IN IF ~ms.isArray THEN Thrown(ms, f, "TypeError")
     ELSE IF p = 0 THEN Returned(ms, f, "error", <<"Project not found:">>)
     ELSE IF t = 0 THEN Returned(ms, f, "error", <<"Task not found:">>)
     ELSE IF ms.data[p].tasks[t].approved
     THEN Returned(ms, f, "error", <<"Cannot update an approved task:">>)
     ELSE applyTaskUpdate(ms, f, p, t, title, description, status,
                          completedDetails)

\* openTaskDetails: the first project, in stored order, that holds a task
\* with the given identifier, and that task.  Over a projects value that is
\* the empty string the loop runs zero times.
openTaskDetails(ms0, f, id) ==
  LET ms == loadTasks(ms0, f)
      holders == {p \in DOMAIN ms.data : findTaskIndex(ms.data[p].tasks, id) # 0}
  IN IF holders = {}
     THEN ReturnedTask(ms, f, "task_not_found", <<"No such task found">>, <<>>)
     ELSE LET p == Min(holders)
              proj == ms.data[p]
              target == proj.tasks[findTaskIndex(proj.tasks, id)]
          IN ReturnedTask(ms, f, "task_details", <<>>,
               <<[projectId |-> proj.projectId,
                  initialPrompt |-> proj.initialPrompt,
                  projectPlan |-> proj.projectPlan,
                  completed |-> proj.completed,
                  task |-> [id |-> target.id, title |-> target.title,
                            description |-> target.description,
                            status |-> target.status,
                            approved |-> target.approved,
                            completedDetails |-> target.completedDetails]]>>)

\* listProjects: every stored project with the numbers of its tasks, of its
\* done tasks and of its approved tasks.  A projects value that is a string
\* has no map method.
listProjects(ms0, f) ==
  LET ms == loadTasks(ms0, f)
      Count(tasks, Test(_)) == Cardinality({t \in DOMAIN tasks : Test(tasks[t])})
  IN IF ~ms.isArray THEN ReturnedList(ms, f, "throws", <<"TypeError">>, <<>>)
     ELSE ReturnedList(ms, f, "projects_listed", <<>>,
            [p \in DOMAIN ms.data |->
               [projectId |-> ms.data[p].projectId,
                initialPrompt |-> ms.data[p].initialPrompt,
                totalTasks |-> Len(ms.data[p].tasks),
                completedTasks |->
                  Count(ms.data[p].tasks, LAMBDA t : t.status = "done"),
                approvedTasks |->
                  Count(ms.data[p].tasks, LAMBDA t : t.approved)]])

\* ------------------------------------------------------ the approve command
\* approveTaskCompletion of the manager the approve command runs on: the
\* store's approval, with a failure handed back as an error that carries a
\* code.
managerApproveTaskCompletion(ms0, f, projectId, id) ==
  LET r == approveTaskCompletion(ms0, f, projectId, id)
      code == CASE r.ret.message = <<"Project not found">> -> "ProjectNotFound"
                [] r.ret.message = <<"Task not found">> -> "TaskNotFound"
                [] r.ret.message = <<"Task not done yet.">> -> "TaskNotDone"
                [] OTHER -> "Unknown"
  IN IF r.ret.status \in {"error", "throws"}
     THEN Returned(r.ms, r.file, "error", <<code>>)
     ELSE Returned(r.ms, r.file, "success", <<>>)

\* What the approve command prints last, and its exit code.
NotDoneYet == "is not marked as done yet"
ApprovalFailed == "Approval failed"
Exit(ms, f, code, line) ==
  Returned(ms, f, IF code = 0 THEN "exit0" ELSE "exit1", <<line>>)

\* The approve command without its pre-check of the task's status.
approveCommand_NoPreCheck(ms0, f, projectId, id, force) ==
  LET projectResponse == readProject(ms0, f, projectId)
      ms == projectResponse.ms
      tasks == projectResponse.ret.tasks
      t == findTaskIndex(tasks, id)
  IN IF projectResponse.ret.status # "success"
     THEN Exit(ms, f, 1, "Project not found.")
     ELSE IF t = 0 THEN Exit(ms, f, 1, "Task not found in project.")
     ELSE IF tasks[t].approved THEN Exit(ms, f, 0, "is already approved")
     ELSE LET approvalResponse ==
                managerApproveTaskCompletion(ms, f, projectId, id)
          IN IF approvalResponse.ret.status = "error"
             THEN Exit(approvalResponse.ms, approvalResponse.file, 1,
                       IF approvalResponse.ret.message = <<"TaskNotDone">>
                       THEN ApprovalFailed ELSE "Error")
             ELSE Exit(approvalResponse.ms, approvalResponse.file, 0,
                       "has been approved")

\* The approve command: the project is read and the task looked up in it;
\* a task that is not done stops the command unless --force is given; an
\* approved task ends it; otherwise the manager is asked to approve, and an
\* error it hands back is thrown to the handler that reports it.
approveCommand(ms0, f, projectId, id, force) ==
  LET projectResponse == readProject(ms0, f, projectId)
      ms == projectResponse.ms
      tasks == projectResponse.ret.tasks
      t == findTaskIndex(tasks, id)
  IN IF projectResponse.ret.status # "success"
     THEN Exit(ms, f, 1, "Project not found.")
     ELSE IF t = 0 THEN Exit(ms, f, 1, "Task not found in project.")
     ELSE IF tasks[t].status # "done" /\ ~force
     THEN Exit(ms, f, 1, NotDoneYet)
     ELSE IF tasks[t].approved THEN Exit(ms, f, 0, "is already approved")
     ELSE LET approvalResponse ==
                managerApproveTaskCompletion(ms, f, projectId, id)
          IN IF approvalResponse.ret.status = "error"
             THEN Exit(approvalResponse.ms, approvalResponse.file, 1,
                       IF approvalResponse.ret.message = <<"TaskNotDone">>
                       THEN ApprovalFailed ELSE "Error")
             ELSE Exit(approvalResponse.ms, approvalResponse.file, 0,
                       "has been approved")

\* ----------------------------------------------------------- input ranges
\* The arguments the callers of one specification draw from: the largest
\* counters at which it still allocates, the identifiers, task lists,
\* autoApprove arguments, text fields, update records and completedDetails
\* it passes.
Inputs(maxProj, maxTask, maxNew, autos, texts, updates, details) ==
  [maxProj |-> maxProj,
   maxTask |-> maxTask,
   projIds |-> {projId(n) : n \in 1..maxProj},
   taskIds |-> {taskId(n) : n \in 1..maxTask},
   lists |-> UNION {[1..n -> TaskDefs] : n \in 0..maxNew},
   autos |-> autos,
   texts |-> texts,
   updates |-> updates,
   details |-> details]

MainInputs ==
  Inputs(MaxProjId, MaxTaskId, MaxNewTasks, {Undefined}, TextInputs,
         UpdateInputs, DetailsInputs)

\* Updates that only request a status, with completedDetails when it is done.
StatusUpdates ==
  {[title |-> Undefined, description |-> Undefined, status |-> s,
    completedDetails |-> IF s = "done" THEN "r" ELSE Undefined] :
     s \in StatusInputs}

\* One project of up to MaxQueue tasks, created in one call.
QueueInputs ==
  Inputs(1, MaxQueue, MaxQueue, {Undefined}, {}, StatusUpdates, {"r"})

\* Several projects and task lists, for the runs that only allocate.
AllocInputs ==
  Inputs(MaxAllocProj, MaxAllocTask, MaxAllocTask, {Undefined}, {}, {}, {})

\* The autoApprove argument of a create call: omitted, true or false.
AutoApproveInputs == {Undefined, "true", "false"}

\* Projects created with each autoApprove argument, and status updates.
AutoInputs ==
  Inputs(MaxProjId, MaxTaskId, MaxNewTasks, AutoApproveInputs, {},
         StatusUpdates, DetailsInputs)

\* Projects of at most one task, for the runs in which the file is damaged.
FileInputs ==
  Inputs(MaxFileProj, MaxFileTask, MaxFileTask, {Undefined}, {}, {}, {})

\* What loadTasks can find in place of the JSON the manager wrote.
BadKinds == {"absent", "unreadable", "unparseable", "noProjects", "emptyString"}

\* One project, status updates and one change of the text fields, for the
\* runs in which the file system refuses writes.
SaveInputs ==
  Inputs(1, MaxSaveTask, 1, {Undefined},
         {[title |-> "b", description |-> "y"]}, StatusUpdates, {"r"})

\* A call of a mutating operation: its name and arguments, with fillers for
\* the arguments the operation does not take.
NoUpdate ==
  [title |-> Undefined, description |-> Undefined, status |-> Undefined,
   completedDetails |-> Undefined]

CallOf(op, projectId, id, tasks, x) ==
  [op |-> op, projectId |-> projectId, id |-> id, tasks |-> tasks, x |-> x]

\* The calls of the mutating operations with arguments from the ranges c.
MutatingCalls(c) ==
  {CallOf("create_project", projId(0), taskId(0), tasks, NoUpdate) :
     tasks \in c.lists}
  \cup {CallOf("mark_task_done", p, t, <<>>,
                [NoUpdate EXCEPT !.completedDetails = d]) :
          p \in c.projIds, t \in c.taskIds, d \in c.details}
  \cup {CallOf("approve_task", p, t, <<>>, NoUpdate) :
          p \in c.projIds, t \in c.taskIds}
  \cup {CallOf("finalize_project", p, taskId(0), <<>>, NoUpdate) :
          p \in c.projIds}
  \cup {CallOf("add_tasks_to_project", p, taskId(0), tasks, NoUpdate) :
          p \in c.projIds, tasks \in c.lists}
  \cup {CallOf("updateTask", p, t, <<>>,
                [NoUpdate EXCEPT !.title = x.title,
                                 !.description = x.description]) :
          p \in c.projIds, t \in c.taskIds, x \in c.texts}
  \cup {CallOf("update_task", p, t, <<>>, x) :
          p \in c.projIds, t \in c.taskIds, x \in c.updates}
  \cup {CallOf("delete_task", p, t, <<>>, NoUpdate) :
          p \in c.projIds, t \in c.taskIds}
  \cup {CallOf("delete_project", p, taskId(0), <<>>, NoUpdate) :
          p \in c.projIds}

\* The outcome of a call on a manager in state ms over file f.
Invoke(ms, f, call) ==
  CASE call.op = "create_project" ->
         handleProjectToolCreate(ms, f,
           [initialPrompt |-> "p", tasks |-> call.tasks,
            projectPlan |-> Undefined, autoApprove |-> Undefined])
    [] call.op = "mark_task_done" ->
         markTaskDone(ms, f, call.projectId, call.id, call.x.completedDetails)
    [] call.op = "approve_task" ->
         approveTaskCompletion(ms, f, call.projectId, call.id)
    [] call.op = "finalize_project" ->
         approveProjectCompletion(ms, f, call.projectId)
    [] call.op = "add_tasks_to_project" ->
         addTasksToProject(ms, f, call.projectId, call.tasks)
    [] call.op = "updateTask" ->
         updateTask(ms, f, call.projectId, call.id, call.x.title,
                    call.x.description)
    [] call.op = "update_task" ->
         handleTaskToolUpdate(ms, f, call.projectId, call.id, call.x.title,
                              call.x.description, call.x.status,
                              call.x.completedDetails)
    [] call.op = "delete_task" ->
         deleteTask(ms, f, call.projectId, call.id)
    [] call.op = "delete_project" ->
         handleProjectToolDelete(ms, f, call.projectId)

\* The statuses of the returns that follow a save.
SavedStatuses ==
  {"planned", "task_marked_done", "task_approved",
   "project_approved_complete", "tasks_added", "task_updated",
   "task_deleted", "project_deleted"}

\* Two projects of several tasks, status updates.
WideInputs ==
  Inputs(2, MaxWideTask, MaxWideTask, {Undefined}, {},
         StatusUpdates, {"r"})

\* One project and status updates, for two managers on one file.
SharedInputs ==
  Inputs(1, MaxSharedTask, 1, {Undefined}, {}, StatusUpdates, {"r"})

\* Projects of at most one task, told apart by their prompt, for the runs in
\* which load and save are separate steps.
RaceInputs == Inputs(MaxRaceProj, 1, 1, {Undefined}, {}, {}, {})
RacePrompts == {"p", "q"}

\* Projects and task lists for two managers that only allocate.
PairInputs ==
  Inputs(MaxPairProj, MaxPairTask, MaxPairTask, {Undefined}, {}, {}, {})

\* One project of up to MaxCliTask tasks, status updates, and the approve
\* command with and without --force.
CliInputs ==
  Inputs(1, MaxCliTask, MaxCliTask, {Undefined}, {}, StatusUpdates, {"r"})

\* Two projects of up to MaxReadTask tasks, status updates and the read
\* operations.
ReadInputs ==
  Inputs(2, MaxReadTask, MaxReadTask, {Undefined}, {}, StatusUpdates, {"r"})

\* One project of up to MaxFlowTask tasks, status updates.
FlowInputs ==
  Inputs(1, MaxFlowTask, MaxFlowTask, {Undefined}, {}, StatusUpdates, {"r"})

\* ---------------------------------------------------------------- actions
\* The project and task identifiers in a list of projects.
IdsOf(projects) ==
  {projects[p].projectId : p \in DOMAIN projects}
  \cup UNION {{projects[p].tasks[t].id : t \in DOMAIN projects[p].tasks} :
              p \in DOMAIN projects}

\* Manager m takes the state that outcome r of a call leaves behind; the
\* identifiers in the file it leaves are recorded as allocated.
Commit(m, r) ==
  /\ data' = [data EXCEPT ![m] = r.ms.data]
  /\ projectCounter' = [projectCounter EXCEPT ![m] = r.ms.projectCounter]
  /\ taskCounter' = [taskCounter EXCEPT ![m] = r.ms.taskCounter]
  /\ file' = r.file
  /\ isArray' = [isArray EXCEPT ![m] = r.ms.isArray]
  /\ allocated' = allocated \cup IdsOf(r.file.projects)

\* The record of a call of operation op with outcome r.
Call(op, r) == [op |-> op, status |-> r.ret.status, message |-> r.ret.message]

\* The autoApprove argument of the call that created project id, Undefined
\* when the call passed none.
AutoApproveOf(id) ==
  IF id \in DOMAIN autoApproveArg THEN autoApproveArg[id] ELSE Undefined

CreateProject(m, c) ==
  \E initialPrompt \in PromptInputs, tasks \in c.lists,
     projectPlan \in PlanInputs, autoApprove \in c.autos :
    \E ms \in {loadTasks(Mgr(m), file)},
       r \in {handleProjectToolCreate(Mgr(m), file,
                [initialPrompt |-> initialPrompt, tasks |-> tasks,
                 projectPlan |-> projectPlan, autoApprove |-> autoApprove])} :
       /\ ms.projectCounter < c.maxProj
       /\ ms.taskCounter + Len(tasks) <= c.maxTask
       /\ Commit(m, r)
       /\ result' = Call("create_project", r)
       /\ autoApproveArg' =
            IF r.ret.status = "throws" THEN autoApproveArg
            ELSE LET id == r.ms.data[Len(r.ms.data)].projectId
                     others == DOMAIN autoApproveArg \ {id}
                 IN [x \in IF autoApprove = Undefined THEN others
                           ELSE others \cup {id} |->
                       IF x = id THEN autoApprove ELSE autoApproveArg[x]]
       /\ UNCHANGED pending

MarkTaskDone(m, c) ==
  \E projectId \in c.projIds, id \in c.taskIds,
     completedDetails \in c.details :
    \E r \in {markTaskDone(Mgr(m), file, projectId, id, completedDetails)} :
       /\ Commit(m, r)
       /\ result' = Call("mark_task_done", r)
       /\ UNCHANGED <<autoApproveArg, pending>>

ApproveTask(m, c) ==
  \E projectId \in c.projIds, id \in c.taskIds :
    \E r \in {approveTaskCompletion(Mgr(m), file, projectId, id)} :
       /\ Commit(m, r)
       /\ result' = Call("approve_task", r)
       /\ UNCHANGED <<autoApproveArg, pending>>

FinalizeProject(m, c) ==
  \E projectId \in c.projIds :
    \E r \in {approveProjectCompletion(Mgr(m), file, projectId)} :
       /\ Commit(m, r)
       /\ result' = Call("finalize_project", r)
       /\ UNCHANGED <<autoApproveArg, pending>>

AddTasksToProject(m, c) ==
  \E projectId \in c.projIds, tasks \in c.lists :
    \E r \in {addTasksToProject(Mgr(m), file, projectId, tasks)} :
       /\ loadTasks(Mgr(m), file).taskCounter + Len(tasks) <= c.maxTask
       /\ Commit(m, r)
       /\ result' = Call("add_tasks_to_project", r)
       /\ UNCHANGED <<autoApproveArg, pending>>

UpdateTaskFields(m, c) ==
  \E projectId \in c.projIds, id \in c.taskIds, x \in c.texts :
    \E r \in {updateTask(Mgr(m), file, projectId, id, x.title, x.description)} :
       /\ Commit(m, r)
       /\ result' = Call("updateTask", r)
       /\ UNCHANGED <<autoApproveArg, pending>>

UpdateTask(m, c) ==
  \E projectId \in c.projIds, id \in c.taskIds, x \in c.updates :
    \E r \in {handleTaskToolUpdate(Mgr(m), file, projectId, id, x.title,
                                  x.description, x.status, x.completedDetails)} :
       /\ Commit(m, r)
       /\ result' = Call("update_task", r)
       /\ UNCHANGED <<autoApproveArg, pending>>

DeleteTask(m, c) ==
  \E projectId \in c.projIds, id \in c.taskIds :
    \E r \in {deleteTask(Mgr(m), file, projectId, id)} :
       /\ Commit(m, r)
       /\ result' = Call("delete_task", r)
       /\ UNCHANGED <<autoApproveArg, pending>>

DeleteProject(m, c) ==
  \E projectId \in c.projIds :
    \E r \in {handleProjectToolDelete(Mgr(m), file, projectId)} :
       /\ Commit(m, r)
       /\ result' = Call("delete_project", r)
       /\ UNCHANGED <<autoApproveArg, pending>>

GetNextTask(m, c) ==
  \E projectId \in c.projIds :
    \E r \in {getNextTask(Mgr(m), file, projectId)} :
       /\ Commit(m, r)
       /\ result' = [op |-> "get_next_task", status |-> r.ret.status,
                     message |-> r.ret.message, task |-> r.ret.task]
       /\ UNCHANGED <<autoApproveArg, pending>>

\* The list command with --project, with or without --state.
ListCommand(m, c) ==
  \E projectId \in c.projIds, stateOption \in StateOptions :
    \E r \in {listCommand(Mgr(m), file, projectId, stateOption)} :
       /\ Commit(m, r)
       /\ result' = [op |-> "list", status |-> r.ret.status,
                     message |-> r.ret.message, tasks |-> r.ret.tasks]
       /\ UNCHANGED <<autoApproveArg, pending>>

\* listTasks for one project or for all, with or without a state.
ListTasks(m, c) ==
  \E projectId \in c.projIds \cup {NoProject},
     state \in StateFilters \cup {Undefined} :
    \E r \in {listTasks(Mgr(m), file, projectId, state)} :
       /\ Commit(m, r)
       /\ result' = [op |-> "list_tasks", status |-> r.ret.status,
                     message |-> r.ret.message, tasks |-> r.ret.tasks]
       /\ UNCHANGED <<autoApproveArg, pending>>

\* createProject up to its save: manager m, with no call under way, reads
\* the file, builds the project in memory and yields at the first await of
\* saveTasks with its return value to come.
CreateProjectLoad(m, c) ==
  \E initialPrompt \in RacePrompts, tasks \in c.lists :
    \E ms \in {loadTasks(Mgr(m), file)},
       r \in {createProject(Mgr(m), [file EXCEPT !.readOnly = FALSE],
                            initialPrompt, tasks, Undefined)} :
       /\ pending[m] = <<>>
       /\ ms.projectCounter < c.maxProj
       /\ ms.taskCounter + Len(tasks) <= c.maxTask
       /\ Commit(m, [ms |-> r.ms, file |-> file])
       /\ pending' = [pending EXCEPT ![m] = <<Call("create_project", r)>>]
       /\ result' = [op |-> "load", status |-> "load", message |-> <<>>]
       /\ UNCHANGED autoApproveArg

\* The rest of the call: writeFile replaces the file with this.data as it is
\* now, and the method returns.
CreateProjectSave(m) ==
  /\ pending[m] # <<>>
  /\ \E r \in {Saved(Mgr(m), file, pending[m][1].status,
                       pending[m][1].message)} :
       /\ Commit(m, r)
       /\ result' = Call(pending[m][1].op, r)
  /\ pending' = [pending EXCEPT ![m] = <<>>]
  /\ UNCHANGED autoApproveArg

\* The fields of a manager object as the class initializes them.
Fresh == [data |-> <<>>, isArray |-> TRUE,
          projectCounter |-> 0, taskCounter |-> 0]

\* The process restarts: manager m is a new object on the same file.  Its
\* constructor starts loadTasks without awaiting it, so the next call finds
\* the fields either still initial or already loaded from the file.
Restart(m) ==
  \E ms \in {Fresh, loadTasks(Fresh, file)} :
    /\ Commit(m, [ms |-> ms, file |-> file])
    /\ result' = [op |-> "restart", status |-> "restart", message |-> <<>>]
    /\ UNCHANGED <<autoApproveArg, pending>>

\* Outside the manager the file is removed, made unreadable or overwritten
\* with something that is not the JSON of a root with an array of projects.
ReplaceFile ==
  \E kind \in BadKinds :
    /\ file' = [file EXCEPT !.kind = kind, !.projects = <<>>]
    /\ result' = [op |-> "replace_file", status |-> kind, message |-> <<>>]
    /\ UNCHANGED <<data, projectCounter, taskCounter, isArray,
                   autoApproveArg, pending, allocated>>

\* The file system that holds the file is remounted read-only or writable.
Remount ==
  /\ file' = [file EXCEPT !.readOnly = ~@]
  /\ result' = [op |-> "remount", status |-> "remount", message |-> <<>>]
  /\ UNCHANGED <<data, projectCounter, taskCounter, isArray,
                 autoApproveArg, pending, allocated>>

\* The approve command, with or without --force.
ApproveCommand(m, c) ==
  \E projectId \in c.projIds, id \in c.taskIds, force \in BOOLEAN :
    \E r \in {approveCommand(Mgr(m), file, projectId, id, force)} :
       /\ Commit(m, r)
       /\ result' = [op |-> "approve", status |-> r.ret.status,
                     message |-> r.ret.message, projectId |-> projectId,
                     id |-> id, force |-> force]
       /\ UNCHANGED <<autoApproveArg, pending>>

OpenTaskDetails(m, c) ==
  \E id \in c.taskIds :
    \E r \in {openTaskDetails(Mgr(m), file, id)} :
       /\ Commit(m, r)
       /\ result' = [op |-> "read_task", status |-> r.ret.status,
                     message |-> r.ret.message, task |-> r.ret.task]
       /\ UNCHANGED <<autoApproveArg, pending>>

ListProjects(m) ==
  \E r \in {listProjects(Mgr(m), file)} :
     /\ Commit(m, r)
     /\ result' = [op |-> "list_projects", status |-> r.ret.status,
                   message |-> r.ret.message, projects |-> r.ret.tasks]
     /\ UNCHANGED <<autoApproveArg, pending>>

\* The workflow of a client that works a project off: its position is the
\* answer to its last call, recorded with the project and the task it is
\* about.
Flow(op, r, projectId, id) ==
  [op |-> op, status |-> r.ret.status, message |-> r.ret.message,
   workflow |-> projectId, id |-> id]

\* No workflow is under way: none was started, or the last one has finalized
\* its project.
Idle == "workflow" \notin DOMAIN result \/ result.op = "finalize_project"

\* The task of the workflow's project that the last answer is about.
FlowTask(m) ==
  LET p == findProjectIndex(data[m], result.workflow)
  IN data[m][p].tasks[findTaskIndex(data[m][p].tasks, result.id)]

\* get_next_task as a step of the workflow on project projectId.
FlowNext(m, projectId) ==
  \E r \in {getNextTask(Mgr(m), file, projectId)} :
     /\ Commit(m, r)
     /\ result' = Flow("get_next_task", r, projectId,
                       IF r.ret.task = <<>> THEN taskId(0)
                       ELSE r.ret.task[1].id)
     /\ UNCHANGED <<autoApproveArg, pending>>

\* The workflow starts on a project that is not completed and has a task.
FlowStart(m, c) ==
  /\ Idle
  /\ \E projectId \in c.projIds :
       /\ \E p \in DOMAIN data[m] :
            /\ data[m][p].projectId = projectId
            /\ ~data[m][p].completed
            /\ data[m][p].tasks # <<>>
       /\ FlowNext(m, projectId)

\* After an approval the workflow asks for the next task.
FlowGetNextTask(m) ==
  /\ ~Idle
  /\ result.op = "approve_task"
  /\ result.status \in {"task_approved", "already_approved"}
  /\ FlowNext(m, result.workflow)

\* The task handed out, or just moved to in progress, is moved on: to in
\* progress when it is not started, to done with completedDetails otherwise.
FlowUpdate(m) ==
  /\ ~Idle
  /\ \/ result.op = "get_next_task" /\ result.status = "next_task"
     \/ /\ result.op = "update_task" /\ result.status = "task_updated"
        /\ FlowTask(m).status = "in progress"
  /\ \E x \in {IF FlowTask(m).status = "not started"
               THEN [NoUpdate EXCEPT !.status = "in progress"]
               ELSE [NoUpdate EXCEPT !.status = "done",
                                     !.completedDetails = "r"]} :
       \E r \in {handleTaskToolUpdate(Mgr(m), file, result.workflow,
                   result.id, x.title, x.description, x.status,
                   x.completedDetails)} :
          /\ Commit(m, r)
          /\ result' = Flow("update_task", r, result.workflow, result.id)
          /\ UNCHANGED <<autoApproveArg, pending>>

\* The task just moved to done is approved; and once get_next_task reports
\* that every task is done, a task that is done and unapproved is approved.
FlowApprove(m) ==
  /\ ~Idle
  /\ \E id \in
       IF result.op = "update_task" /\ result.status = "task_updated"
          /\ FlowTask(m).status = "done"
       THEN {result.id}
       ELSE IF result.op = "get_next_task"
               /\ result.status = "all_tasks_done"
       THEN LET p == findProjectIndex(data[m], result.workflow)
                unapproved == {t \in DOMAIN data[m][p].tasks :
                                 ~data[m][p].tasks[t].approved}
            IN IF unapproved = {} THEN {}
               ELSE {data[m][p].tasks[Min(unapproved)].id}
       ELSE {} :
       \E r \in {approveTaskCompletion(Mgr(m), file, result.workflow, id)} :
          /\ Commit(m, r)
          /\ result' = Flow("approve_task", r, result.workflow, id)
          /\ UNCHANGED <<autoApproveArg, pending>>

\* get_next_task has reported that every task is done and no task is left
\* unapproved: the project is finalized.
FlowFinalize(m) ==
  /\ ~Idle
  /\ result.op = "get_next_task"
  /\ result.status = "all_tasks_done"
  /\ LET p == findProjectIndex(data[m], result.workflow)
     IN \A t \in DOMAIN data[m][p].tasks : data[m][p].tasks[t].approved
  /\ \E r \in {approveProjectCompletion(Mgr(m), file, result.workflow)} :
       /\ Commit(m, r)
       /\ result' = Flow("finalize_project", r, result.workflow, taskId(0))
       /\ UNCHANGED <<autoApproveArg, pending>>

\* ---------------------------------------------------------- specification
\* A fresh manager on a file that does not exist yet.
Init ==
  /\ data = [m \in Mgrs |-> <<>>]
  /\ projectCounter = [m \in Mgrs |-> 0]
  /\ taskCounter = [m \in Mgrs |-> 0]
  /\ file = [kind |-> "absent", projects |-> <<>>, readOnly |-> FALSE]
  /\ result = [op |-> "init", status |-> "init", message |-> <<>>]
  /\ autoApproveArg = <<>>
  /\ isArray = [m \in Mgrs |-> TRUE]
  /\ pending = [m \in Mgrs |-> <<>>]
  /\ allocated = {}

\* One manager instance owns the file.
Next ==
  \E m \in {1} :
    \/ CreateProject(m, MainInputs)
    \/ MarkTaskDone(m, MainInputs)
    \/ ApproveTask(m, MainInputs)
    \/ FinalizeProject(m, MainInputs)
    \/ AddTasksToProject(m, MainInputs)
    \/ UpdateTaskFields(m, MainInputs)
    \/ UpdateTask(m, MainInputs)
    \/ DeleteTask(m, MainInputs)
    \/ DeleteProject(m, MainInputs)

Spec == Init /\ [][Next]_vars

\* One manager works through the tasks of one project.
NextQueue ==
  \E m \in {1} :
    \/ CreateProject(m, QueueInputs)
    \/ UpdateTask(m, QueueInputs)
    \/ ApproveTask(m, QueueInputs)
    \/ FinalizeProject(m, QueueInputs)
    \/ GetNextTask(m, QueueInputs)

SpecQueue == Init /\ [][NextQueue]_vars

\* One manager allocates projects and tasks and is restarted in between.
NextAlloc ==
  \E m \in {1} :
    \/ CreateProject(m, AllocInputs)
    \/ AddTasksToProject(m, AllocInputs)
    \/ Restart(m)

SpecAlloc == Init /\ [][NextAlloc]_vars

\* One manager creates projects with and without autoApprove and takes their
\* tasks to done and approved.
NextAuto ==
  \E m \in {1} :
    \/ CreateProject(m, AutoInputs)
    \/ UpdateTask(m, AutoInputs)
    \/ MarkTaskDone(m, AutoInputs)
    \/ ApproveTask(m, AutoInputs)
    \/ DeleteProject(m, AutoInputs)

SpecAuto == Init /\ [][NextAuto]_vars

\* One manager on a file that is damaged between its calls.
NextFile ==
  \/ \E m \in {1} :
       \/ CreateProject(m, FileInputs)
       \/ AddTasksToProject(m, FileInputs)
       \/ GetNextTask(m, FileInputs)
  \/ ReplaceFile

SpecFile == Init /\ [][NextFile]_vars

\* One manager on a file system that at times refuses writes.
NextSave ==
  \/ \E m \in {1} :
       \/ CreateProject(m, SaveInputs)
       \/ MarkTaskDone(m, SaveInputs)
       \/ ApproveTask(m, SaveInputs)
       \/ FinalizeProject(m, SaveInputs)
       \/ AddTasksToProject(m, SaveInputs)
       \/ UpdateTaskFields(m, SaveInputs)
       \/ UpdateTask(m, SaveInputs)
       \/ DeleteTask(m, SaveInputs)
       \/ DeleteProject(m, SaveInputs)
  \/ Remount

SpecSave == Init /\ [][NextSave]_vars

\* One manager, two projects of several tasks, and the listings.
NextWide ==
  \E m \in {1} :
    \/ CreateProject(m, WideInputs)
    \/ AddTasksToProject(m, WideInputs)
    \/ UpdateTask(m, WideInputs)
    \/ ApproveTask(m, WideInputs)
    \/ DeleteTask(m, WideInputs)
    \/ ListCommand(m, WideInputs)
    \/ ListTasks(m, WideInputs)

SpecWide == Init /\ [][NextWide]_vars

\* Two managers on one file, one whole operation at a time.
NextShared ==
  \E m \in Mgrs :
    \/ CreateProject(m, SharedInputs)
    \/ AddTasksToProject(m, SharedInputs)
    \/ UpdateTask(m, SharedInputs)
    \/ ApproveTask(m, SharedInputs)
    \/ FinalizeProject(m, SharedInputs)
    \/ DeleteTask(m, SharedInputs)
    \/ DeleteProject(m, SharedInputs)

SpecShared == Init /\ [][NextShared]_vars

\* Two managers on one file; the load and the save of a call are separate
\* steps, so that calls of the two managers overlap.
NextRace ==
  \E m \in Mgrs :
    \/ CreateProjectLoad(m, RaceInputs)
    \/ CreateProjectSave(m)

SpecRace == Init /\ [][NextRace]_vars

\* Two managers on one file that create projects and add tasks, one whole
\* operation at a time.
NextPair ==
  \E m \in Mgrs :
    \/ CreateProject(m, PairInputs)
    \/ AddTasksToProject(m, PairInputs)

SpecPair == Init /\ [][NextPair]_vars

\* One manager and one project whose tasks are approved from the command
\* line.
NextCli ==
  \E m \in {1} :
    \/ CreateProject(m, CliInputs)
    \/ UpdateTask(m, CliInputs)
    \/ ApproveCommand(m, CliInputs)

SpecCli == Init /\ [][NextCli]_vars

\* One manager, two projects, the read operations, and a file that is at
\* times replaced from outside.
NextRead ==
  \/ \E m \in {1} :
       \/ CreateProject(m, ReadInputs)
       \/ UpdateTask(m, ReadInputs)
       \/ ApproveTask(m, ReadInputs)
       \/ GetNextTask(m, ReadInputs)
       \/ OpenTaskDetails(m, ReadInputs)
       \/ ListProjects(m)
  \/ ReplaceFile

SpecRead == Init /\ [][NextRead]_vars

\* One manager and one project: calls in any order while no workflow is
\* under way, then the workflow, which is not interleaved with other calls
\* and goes on as long as it has a step to take.
FlowSteps ==
  \E m \in {1} :
    \/ FlowGetNextTask(m)
    \/ FlowUpdate(m)
    \/ FlowApprove(m)
    \/ FlowFinalize(m)

NextFlow ==
  \/ \E m \in {1} :
       /\ Idle
       /\ \/ CreateProject(m, FlowInputs)
          \/ UpdateTask(m, FlowInputs)
          \/ ApproveTask(m, FlowInputs)
          \/ FlowStart(m, FlowInputs)
  \/ FlowSteps

SpecFlow == Init /\ [][NextFlow]_vars /\ WF_vars(FlowSteps)

\* ----------------------------------------------------------------- claims
\* The positions <<p, t>> of the tasks of a project list.
TaskPositions(projects) ==
  UNION {{<<p, t>> : t \in DOMAIN projects[p].tasks} : p \in DOMAIN projects}

TaskAt(projects, x) == projects[x[1]].tasks[x[2]]

\* The pairs <<x, y>> of positions, x in `before` and y in `after`, that hold the
\* same task: same project identifier and same task identifier.
SameTask(before, after) ==
  {z \in TaskPositions(before) \X TaskPositions(after) :
     /\ before[z[1][1]].projectId = after[z[2][1]].projectId
     /\ TaskAt(before, z[1]).id = TaskAt(after, z[2]).id}

\* The outcome of the update tool for one argument record.
UpdateOutcome(projectId, id, x) ==
  handleTaskToolUpdate(Mgr(1), file, projectId, id, x.title, x.description,
                       x.status, x.completedDetails)

\* C1: after any sequence of operations, every task with approved = true has
\* status = done, in the manager's memory and in the backing file.
C1_ApprovedImpliesDone ==
  /\ \A x \in TaskPositions(data[1]) :
       TaskAt(data[1], x).approved => TaskAt(data[1], x).status = "done"
  /\ \A x \in TaskPositions(file.projects) :
       TaskAt(file.projects, x).approved =>
         TaskAt(file.projects, x).status = "done"

\* A task has just been approved.
C1_Witness ==
  /\ result.op = "approve_task" /\ result.status = "task_approved"
  /\ \E x \in TaskPositions(data[1]) :
       TaskAt(data[1], x).approved /\ TaskAt(data[1], x).status = "done"

\* C2: every project with completed = true holds only tasks that are done and
\* approved.
C2_CompletedImpliesAllApproved ==
  \A p \in DOMAIN data[1] :
    data[1][p].completed =>
      \A t \in DOMAIN data[1][p].tasks :
        data[1][p].tasks[t].status = "done" /\ data[1][p].tasks[t].approved

\* Adding tasks to a completed project that holds a task has just been refused.
C2_Witness ==
  /\ result.op = "add_tasks_to_project"
  /\ result.message = <<"Cannot add tasks to completed project">>
  /\ \E p \in DOMAIN data[1] :
       data[1][p].completed /\ Len(data[1][p].tasks) >= 1

\* The status changes the transition table allows.
TableTransitions ==
  {<<"not started", "in progress">>, <<"in progress", "done">>,
   <<"in progress", "not started">>, <<"done", "in progress">>}

\* C3: in every step of every public operation, a task's status stays the same
\* or changes along one entry of the transition table.
C3_OnlyTableTransitions ==
  [][\A z \in SameTask(data[1], data'[1]) :
       \/ TaskAt(data'[1], z[2]).status = TaskAt(data[1], z[1]).status
       \/ <<TaskAt(data[1], z[1]).status, TaskAt(data'[1], z[2]).status>>
            \in TableTransitions]_vars

C5_DoneOnlyWithDetails ==
  [][\A z \in SameTask(data[1], data'[1]) :
       (/\ TaskAt(data[1], z[1]).status # "done"
        /\ TaskAt(data'[1], z[2]).status = "done")
       => TaskAt(data'[1], z[2]).completedDetails # ""]_vars

\* C6, first half: every update of an approved task fails and changes
\* nothing, whichever fields it names.
C6_UpdatesFail ==
  \A x \in TaskPositions(data[1]) :
    TaskAt(data[1], x).approved =>
      LET projectId == data[1][x[1]].projectId
          id == TaskAt(data[1], x).id
      IN /\ \A u \in UpdateInputs :
              \A r \in {UpdateOutcome(projectId, id, u)} :
                r.ret.status = "error" /\ r.ms.data = data[1] /\ r.file = file
         /\ \A u \in TextInputs :
              \A r \in {updateTask(Mgr(1), file, projectId, id, u.title,
                                   u.description)} :
                r.ret.status = "error" /\ r.ms.data = data[1] /\ r.file = file

\* C6, second half: an approved task that is still in the store after a step
\* is still approved and has the same title, description and status.
C6_Frozen ==
  \A z \in SameTask(data[1], data'[1]) :
    TaskAt(data[1], z[1]).approved =>
      /\ TaskAt(data'[1], z[2]).approved
      /\ TaskAt(data'[1], z[2]).title = TaskAt(data[1], z[1]).title
      /\ TaskAt(data'[1], z[2]).description = TaskAt(data[1], z[1]).description
      /\ TaskAt(data'[1], z[2]).status = TaskAt(data[1], z[1]).status

\* C6: once a task is approved, every update of it fails and its title,
\* description and status never change.
C6_ApprovedTaskImmutable == []C6_UpdatesFail /\ [][C6_Frozen]_vars

\* An update of an approved task has just been refused.
C6_Witness ==
  /\ result.op = "update_task"
  /\ result.message = <<"Cannot update an approved task:">>
  /\ \E x \in TaskPositions(data[1]) : TaskAt(data[1], x).approved

\* C7, first half: approving a task that is not done fails and leaves it
\* unapproved.
C7_ApproveNeedsDone ==
  \A x \in TaskPositions(data[1]) :
    TaskAt(data[1], x).status # "done" =>
      \A r \in {approveTaskCompletion(Mgr(1), file, data[1][x[1]].projectId,
                                       TaskAt(data[1], x).id)} :
         /\ r.ret.status = "error"
         /\ r.ret.message = <<"Task not done yet.">>
         /\ r.ms.data = data[1]
         /\ r.file = file
         /\ ~TaskAt(r.ms.data, x).approved

\* C7, second half: approved turns from false to true only on a done task.
C7_ApprovedOnlyWhenDone ==
  \A z \in SameTask(data[1], data'[1]) :
    (~TaskAt(data[1], z[1]).approved /\ TaskAt(data'[1], z[2]).approved)
    => /\ TaskAt(data[1], z[1]).status = "done"
       /\ TaskAt(data'[1], z[2]).status = "done"

\* C7: approve_task on a task that is not done fails and leaves approved =
\* false; approved becomes true only while the status is done.
C7_ApprovalGated == []C7_ApproveNeedsDone /\ [][C7_ApprovedOnlyWhenDone]_vars

\* Approving a task that is not done has just been refused.
C7_Witness ==
  /\ result.op = "approve_task"
  /\ result.message = <<"Task not done yet.">>
  /\ \E x \in TaskPositions(data[1]) :
       TaskAt(data[1], x).status # "done" /\ ~TaskAt(data[1], x).approved

\* C8: approve_task on an approved task returns "already_approved" and leaves
\* memory and file as they are; a second approve_task after a first one
\* changes nothing more.
C8_ApproveIdempotent ==
  /\ \A x \in TaskPositions(data[1]) :
       TaskAt(data[1], x).approved =>
         \A r \in {approveTaskCompletion(Mgr(1), file,
                                          data[1][x[1]].projectId,
                                          TaskAt(data[1], x).id)} :
            /\ r.ret.status = "already_approved"
            /\ r.ms.data = data[1]
            /\ r.file = file
  /\ \A projectId \in ProjIdInputs, id \in TaskIdInputs :
       \A r1 \in {approveTaskCompletion(Mgr(1), file, projectId, id)} :
         \A r2 \in {approveTaskCompletion(r1.ms, r1.file, projectId, id)} :
           r2.ms = r1.ms /\ r2.file = r1.file

\* An approved task has just been approved again.
C8_Witness ==
  /\ result.op = "approve_task" /\ result.status = "already_approved"
  /\ \E x \in TaskPositions(data[1]) : TaskAt(data[1], x).approved

\* C9: finalize_project on an existing project that is not completed succeeds,
\* setting completed, exactly when every task is done and approved; otherwise
\* it changes nothing and reports "not all done" when some task is not done,
\* and "not all approved" when all are done and some is unapproved.
C9_FinalizeIffAllApproved ==
  \A p \in DOMAIN data[1] :
    ~data[1][p].completed =>
      LET tasks == data[1][p].tasks
          allDone == \A t \in DOMAIN tasks : tasks[t].status = "done"
          allApproved ==
            \A t \in DOMAIN tasks : tasks[t].status = "done" /\ tasks[t].approved
      IN \A r \in {approveProjectCompletion(Mgr(1), file,
                                            data[1][p].projectId)} :
         /\ r.ret.status = "project_approved_complete" <=> allApproved
         /\ allApproved =>
              /\ r.ms.data = [data[1] EXCEPT ![p].completed = TRUE]
              /\ r.file = saveTasks(r.ms, file)
         /\ ~allApproved =>
              /\ r.ret.status = "error"
              /\ r.ms.data = data[1]
              /\ r.file = file
              /\ ~allDone => r.ret.message = <<"Not all tasks are done.">>
              /\ allDone =>
                   r.ret.message = <<"Not all done tasks are approved.">>

\* Finalizing a project whose tasks are all done, one of them unapproved, has
\* just been refused.
C9_Witness ==
  /\ result.op = "finalize_project"
  /\ result.message = <<"Not all done tasks are approved.">>
  /\ \E p \in DOMAIN data[1] :
       /\ ~data[1][p].completed
       /\ \A t \in DOMAIN data[1][p].tasks : data[1][p].tasks[t].status = "done"
       /\ \E t \in DOMAIN data[1][p].tasks : ~data[1][p].tasks[t].approved

\* C10: finalize_project on a project that is already completed fails.
C10_FinalizeCompletedFails ==
  \A p \in DOMAIN data[1] :
    data[1][p].completed =>
      approveProjectCompletion(Mgr(1), file,
                               data[1][p].projectId).ret.status = "error"

\* The pairs <<p, q>> of positions, p in `before` and q in `after`, that hold
\* the project of one identifier.
SameProject(before, after) ==
  {z \in (DOMAIN before) \X (DOMAIN after) :
     before[z[1]].projectId = after[z[2]].projectId}

\* C11, first half: on a completed project every add_tasks_to_project,
\* update_task and delete_task call fails and changes nothing.
C11_CallsFail ==
  \A p \in DOMAIN data[1] :
    data[1][p].completed =>
      LET projectId == data[1][p].projectId
      IN /\ \A tasks \in TaskLists :
              \A r \in {addTasksToProject(Mgr(1), file, projectId, tasks)} :
                r.ret.status = "error" /\ r.ms.data = data[1] /\ r.file = file
         /\ \A id \in TaskIdInputs :
              /\ \A u \in UpdateInputs :
                   \A r \in {UpdateOutcome(projectId, id, u)} :
                     /\ r.ret.status = "error"
                     /\ r.ms.data = data[1]
                     /\ r.file = file
              /\ \A r \in {deleteTask(Mgr(1), file, projectId, id)} :
                   r.ret.status = "error" /\ r.ms.data = data[1] /\ r.file = file

\* C11, second half: a completed project that is still in the store after a
\* step has the same tasks, with the same fields, in the same order.
C11_TasksFrozen ==
  \A z \in SameProject(data[1], data'[1]) :
    data[1][z[1]].completed => data'[1][z[2]].tasks = data[1][z[1]].tasks

\* C11: the tasks of a completed project are frozen: adding, updating and
\* deleting fail, and the task sequence stays as it is while the project
\* exists.
C11_CompletedProjectFrozen == []C11_CallsFail /\ [][C11_TasksFrozen]_vars

\* Deleting a task of a completed project has just been refused.
C11_Witness ==
  /\ result.op = "delete_task"
  /\ result.message = <<"Cannot delete completed task">>
  /\ \E p \in DOMAIN data[1] :
       data[1][p].completed /\ Len(data[1][p].tasks) >= 1

\* C12, as one step: a completed project that is still in the store is still
\* completed, and a project is completed after a step without having been
\* completed before it only when the step is a successful finalize_project.
C12_StepRule ==
  /\ \A z \in SameProject(data[1], data'[1]) :
       data[1][z[1]].completed => data'[1][z[2]].completed
  /\ \A q \in DOMAIN data'[1] :
       (/\ data'[1][q].completed
        /\ \A p \in DOMAIN data[1] :
             data[1][p].projectId = data'[1][q].projectId
               => ~data[1][p].completed)
       => /\ result'.op = "finalize_project"
          /\ result'.status = "project_approved_complete"

\* C12: under one manager, completed stays true once it is true, and only
\* finalize_project makes it true.
C12_FinalizationTerminal == [][C12_StepRule]_vars

\* A later call has acted on a project that was finalized before.
C12_Witness ==
  /\ result.op = "mark_task_done" /\ result.status = "already_done"
  /\ \E p \in DOMAIN data[1] :
       data[1][p].completed /\ Len(data[1][p].tasks) >= 1

\* The index of the first task of a status, 0 when there is none.
firstWithStatus(tasks, status) ==
  LET S == {i \in DOMAIN tasks : tasks[i].status = status}
  IN IF S = {} THEN 0 ELSE Min(S)

\* The value get_next_task returns for the project at position p.
NextTaskOf(p) == getNextTask(Mgr(1), file, data[1][p].projectId).ret

\* C13: when a project has an in-progress task, get_next_task returns the
\* first in-progress task, also when a not started task comes before it.
C13_InProgressFirst ==
  \A p \in DOMAIN data[1] :
    LET tasks == data[1][p].tasks
        i == firstWithStatus(tasks, "in progress")
    IN i # 0 =>
         \A ret \in {NextTaskOf(p)} :
           /\ ret.status = "next_task"
           /\ Len(ret.task) = 1
           /\ ret.task[1].id = tasks[i].id

\* C14: when a project has no in-progress task and has a not started task,
\* get_next_task returns the first not started task, passing over the done
\* tasks before it.
C14_FirstNotStarted ==
  \A p \in DOMAIN data[1] :
    LET tasks == data[1][p].tasks
        i == firstWithStatus(tasks, "not started")
    IN (firstWithStatus(tasks, "in progress") = 0 /\ i # 0) =>
         \A ret \in {NextTaskOf(p)} :
           /\ ret.status = "next_task"
           /\ Len(ret.task) = 1
           /\ ret.task[1].id = tasks[i].id
           /\ ret.task[1].title = tasks[i].title
           /\ ret.task[1].description = tasks[i].description

\* get_next_task has just returned the second task of a project, a not
\* started task that follows a done task.
C14_Witness ==
  /\ result.op = "get_next_task" /\ result.status = "next_task"
  /\ \E p \in DOMAIN data[1] :
       /\ Len(data[1][p].tasks) >= 2
       /\ data[1][p].tasks[1].status = "done"
       /\ data[1][p].tasks[2].status = "not started"
       /\ result.task[1].id = data[1][p].tasks[2].id

\* A result that is no error and names no task.
NoNextTask(ret) == ret.status # "error" /\ ret.task = <<>>

\* C15: get_next_task returns a non-error result without a task exactly for
\* the projects that hold at least one task and whose tasks are all done,
\* approved or not, completed or not.
C15_NoNextTaskIffAllDone ==
  \A p \in DOMAIN data[1] :
    LET tasks == data[1][p].tasks
    IN NoNextTask(NextTaskOf(p))
       <=> (/\ Len(tasks) >= 1
            /\ \A t \in DOMAIN tasks : tasks[t].status = "done")

\* C16: get_next_task on a project without tasks fails.
C16_EmptyProjectFails ==
  \A p \in DOMAIN data[1] :
    Len(data[1][p].tasks) = 0 => NextTaskOf(p).status = "error"

\* The numeric suffixes of the project identifiers and of the task
\* identifiers of a project list.
ProjectSuffixes(projects) ==
  {parseSuffix(projects[p].projectId, "proj") : p \in DOMAIN projects}

TaskSuffixes(projects) ==
  {parseSuffix(TaskAt(projects, x).id, "task") : x \in TaskPositions(projects)}

\* No two projects of a list share a projectId, no two tasks share an id.
UniqueIds(projects) ==
  /\ \A p, q \in DOMAIN projects :
       projects[p].projectId = projects[q].projectId => p = q
  /\ \A x, y \in TaskPositions(projects) :
       TaskAt(projects, x).id = TaskAt(projects, y).id => x = y

\* C17, in every state: identifiers are unique in the manager's memory and in
\* the file.
C17_Unique == UniqueIds(data[1]) /\ UniqueIds(file.projects)

\* C17, in every step: the file keeps every identifier it held, and each
\* identifier it gains has a suffix above every suffix it held.
C17_Increasing ==
  /\ ProjectSuffixes(file.projects) \subseteq ProjectSuffixes(file'.projects)
  /\ TaskSuffixes(file.projects) \subseteq TaskSuffixes(file'.projects)
  /\ \A n \in ProjectSuffixes(file'.projects) \ ProjectSuffixes(file.projects) :
       \A k \in ProjectSuffixes(file.projects) : n > k
  /\ \A n \in TaskSuffixes(file'.projects) \ TaskSuffixes(file.projects) :
       \A k \in TaskSuffixes(file.projects) : n > k

ApprovedIn(projects, projectId, id) ==
  \E x \in TaskPositions(projects) :
    /\ projects[x[1]].projectId = projectId
    /\ TaskAt(projects, x).id = id
    /\ TaskAt(projects, x).approved

\* C18: in a project created with autoApprove = true, the update_task call
\* that moves a task into done leaves it approved, in memory and in the file
\* that call writes.
C18_AutoApprovedOnDone ==
  [][\A z \in SameTask(data[1], data'[1]) :
       LET projectId == data[1][z[1][1]].projectId
       IN (/\ AutoApproveOf(projectId) = "true"
           /\ result'.op = "update_task"
           /\ TaskAt(data[1], z[1]).status # "done"
           /\ TaskAt(data'[1], z[2]).status = "done")
          => /\ TaskAt(data'[1], z[2]).approved
             /\ ApprovedIn(file'.projects, projectId,
                           TaskAt(data'[1], z[2]).id)]_vars

\* C19, as one step: in a project created with autoApprove false or omitted,
\* a task that moves into done is unapproved afterwards, and a task becomes
\* approved only in a successful approve_task call.
C19_StepRule ==
  \A z \in SameTask(data[1], data'[1]) :
    AutoApproveOf(data[1][z[1][1]].projectId) # "true" =>
      /\ (/\ TaskAt(data[1], z[1]).status # "done"
          /\ TaskAt(data'[1], z[2]).status = "done")
         => ~TaskAt(data'[1], z[2]).approved
      /\ (~TaskAt(data[1], z[1]).approved /\ TaskAt(data'[1], z[2]).approved)
         => result'.op = "approve_task" /\ result'.status = "task_approved"

\* C19: without autoApprove, moving a task into done leaves it unapproved;
\* only a later approve_task approves it.
C19_ManualApproval == [][C19_StepRule]_vars

\* An update has just moved a task of a project created with autoApprove =
\* false into done, and the task is unapproved.
C19_Witness ==
  /\ result.op = "update_task" /\ result.status = "task_updated"
  /\ \E x \in TaskPositions(data[1]) :
       /\ AutoApproveOf(data[1][x[1]].projectId) = "false"
       /\ TaskAt(data[1], x).status = "done"
       /\ ~TaskAt(data[1], x).approved

\* C20: an update of an unapproved task that requests the status the task
\* already has succeeds and leaves status, approved and completedDetails as
\* they are, with and without completedDetails in the call.
C20_SameStatusNoOp ==
  \A x \in TaskPositions(data[1]) :
    ~TaskAt(data[1], x).approved =>
      \A completedDetails \in DetailsInputs :
        \A r \in {handleTaskToolUpdate(Mgr(1), file, data[1][x[1]].projectId,
                                       TaskAt(data[1], x).id, Undefined,
                                       Undefined, TaskAt(data[1], x).status,
                                       completedDetails)} :
          /\ r.ret.status = "task_updated"
          /\ TaskAt(r.ms.data, x).status = TaskAt(data[1], x).status
          /\ TaskAt(r.ms.data, x).approved = TaskAt(data[1], x).approved
          /\ TaskAt(r.ms.data, x).completedDetails =
               TaskAt(data[1], x).completedDetails

\* C21: load never fails.  When the file is absent, unreadable, not parseable
\* or parses to a root without a sequence of projects, loadTasks leaves the
\* empty root with zero projects and the operation that loaded proceeds
\* against it: getNextTask answers that there is no such project, and
\* createProject stores its project as the only one.
C21_LoadNeverFails ==
  file.kind \in BadKinds =>
    /\ \A ms \in {loadTasks(Mgr(1), file)} : ms.isArray /\ ms.data = <<>>
    /\ \A r \in {getNextTask(Mgr(1), file, projId(1))} :
         r.ret.status = "error" /\ r.ret.message = <<"Project not found">>
    /\ \A r \in {createProject(Mgr(1), file, "p", <<>>, Undefined)} :
         r.ret.status = "planned" /\ Len(r.ms.data) = 1

\* C22: after every load each counter is the largest numeric suffix among the
\* identifiers of the loaded state, 0 when there is none, whatever the
\* counters held before.
C22_CountersRecomputed ==
  \A ms \in {loadTasks(Mgr(1), file)} :
    /\ ms.projectCounter = Max(ProjectSuffixes(ms.data) \cup {0})
    /\ ms.taskCounter = Max(TaskSuffixes(ms.data) \cup {0})

\* C23: when a save fails, the mutating operation that called it fails with
\* the storage error, returns no success result and leaves the content of the
\* file as it was.  On a file system that refuses writes, every call that
\* would return after a save on a writable one throws the error of the write
\* with the file untouched, and no step changes the file or answers with the
\* status of a saved change.
C23_CallsThrow ==
  file.readOnly =>
    \A call \in MutatingCalls(SaveInputs) :
      \A r \in {Invoke(Mgr(1), file, call)},
         w \in {Invoke(Mgr(1), [file EXCEPT !.readOnly = FALSE], call)} :
        IF w.ret.status \in SavedStatuses
        THEN r.ret = [status |-> "throws", message |-> <<"EROFS">>]
             /\ r.file = file
        ELSE r.ret = w.ret /\ r.file = file

C23_StepRule ==
  (file.readOnly /\ file'.readOnly) =>
     file' = file /\ result'.status \notin SavedStatuses

C23_SaveFailurePropagates == []C23_CallsThrow /\ [][C23_StepRule]_vars

\* A call that would have saved has thrown the error of the write.
C23_Witness ==
  /\ file.readOnly
  /\ result.op = "update_task"
  /\ result.status = "throws"
  /\ result.message = <<"EROFS">>
  /\ file.kind = "json"
  /\ file.projects # data[1]

\* C24: saving a reachable state and loading it again yields the same
\* projects in the same order with the same fields and tasks, and the same
\* counters as before the save.
C24_RoundTrip ==
  \A ms \in {loadTasks(Mgr(1), saveTasks(Mgr(1), file))} :
    /\ ms.data = data[1]
    /\ ms.projectCounter = projectCounter[1]
    /\ ms.taskCounter = taskCounter[1]

\* C25: delete_task removes a task only while its status is not done.  On a
\* done task, approved or not, it fails and the store and the file stay as
\* they are; on a task that is not started or in progress it removes exactly
\* that task and saves the rest unchanged.
C25_DeleteOnlyNotDone ==
  \A loaded \in {loadTasks(Mgr(1), file).data} :
    \A x \in TaskPositions(loaded) :
      \A r \in {deleteTask(Mgr(1), file, loaded[x[1]].projectId,
                            TaskAt(loaded, x).id)} :
        IF TaskAt(loaded, x).status = "done"
        THEN /\ r.ret.status = "error"
             /\ r.ms.data = loaded
             /\ r.file = file
        ELSE /\ r.ret.status = "task_deleted"
             /\ r.ms.data =
                  [loaded EXCEPT ![x[1]].tasks = RemoveAt(@, x[2])]
             /\ r.file.projects = r.ms.data

\* A task was deleted from a project that keeps a done task.
C25_Witness ==
  /\ result.op = "delete_task"
  /\ result.status = "task_deleted"
  /\ \E x \in TaskPositions(data[1]) : TaskAt(data[1], x).status = "done"
  /\ file.projects = data[1]

\* C26: every mutating operation reloads the file before it validates and
\* applies its change.  With two managers on one file that run one whole
\* operation at a time, each call answers and saves as it would on a manager
\* that has just loaded the file.
C26_ReloadsFirst ==
  \A m \in Mgrs :
    \A call \in MutatingCalls(SharedInputs) :
      \A r \in {Invoke(Mgr(m), file, call)},
         w \in {Invoke(loadTasks(Mgr(m), file), file, call)} :
        r.ret = w.ret /\ r.file = w.file

\* C27: with two managers on one file and load and save as separate steps,
\* the interleaving load(A), load(B), save(A), save(B) is reachable, and in it
\* B's save replaces the file, so that A's mutation, reported to A's caller
\* as successful, is absent from what is persisted.  Every save reports
\* success and leaves in the file exactly the projects the saving manager
\* holds, whatever another manager saved since it loaded.
C27_SaveStep ==
  \A m \in Mgrs :
    (pending[m] # <<>> /\ pending'[m] = <<>>) =>
      /\ result'.op = "create_project"
      /\ result'.status = "planned"
      /\ file'.projects = data[m]
      /\ \A o \in Mgrs \ {m} :
           \A i \in DOMAIN data[o] :
             (pending[o] = <<>> /\ data[o][i] \notin Range(data[m]))
               => data[o][i] \notin Range(file'.projects)

C27_SecondSaveClobbers == [][C27_SaveStep]_vars

\* After load(A), load(B), save(A), save(B): both calls have returned, each
\* manager holds only its own project, both named proj-1, and the file holds
\* B's and not A's.
C27_Witness ==
  /\ pending = [m \in Mgrs |-> <<>>]
  /\ result.op = "create_project" /\ result.status = "planned"
  /\ Len(data[1]) = 1 /\ data[1][1].initialPrompt = "p"
  /\ Len(data[2]) = 1 /\ data[2][1].initialPrompt = "q"
  /\ data[1][1].projectId = projId(1) /\ data[2][1].projectId = projId(1)
  /\ file.projects = data[2]
  /\ data[1][1] \notin Range(file.projects)

\* C28: an update_task call that supplies several fields and fails a
\* validation (task approved, transition not allowed, completedDetails
\* missing for done) applies none of them: the store in memory and the file
\* are what they were before the call.
C28_AllOrNothing ==
  \A projectId \in MainInputs.projIds, id \in MainInputs.taskIds,
     x \in MainInputs.updates :
    \A r \in {UpdateOutcome(projectId, id, x)} :
      r.ret.status = "error" => r.ms.data = data[1] /\ r.file = file

\* An update that named a new title, a new description and done without
\* completedDetails was refused; the task has its first title.
C28_Witness ==
  /\ result.op = "update_task"
  /\ result.status = "error"
  /\ \E x \in MainInputs.updates :
       /\ x.title = "b" /\ x.description = "y"
       /\ x.status = "done" /\ x.completedDetails = Undefined
       /\ UpdateOutcome(projId(1), taskId(1), x).ret.message = result.message
  /\ result.message =
       <<"completedDetails is required when setting status to 'done'">>
  /\ data[1][1].tasks[1].title = "a"
  /\ data[1][1].tasks[1].status = "in progress"

\* C29: in every reachable state each task is in exactly one of the derived
\* states open (status not done), pending_approval (done and not approved)
\* and completed (done and approved); listing with one of these filters, for
\* one project or across all projects, returns exactly the tasks in that
\* state, and listing without a filter returns all tasks.
C29_DerivedStatesAndFilters ==
  \A loaded \in {loadTasks(Mgr(1), file).data} :
    LET In(task, state) ==
          \/ state = "open" /\ task.status # "done"
          \/ state = "pending_approval"
               /\ task.status = "done" /\ ~task.approved
          \/ state = "completed" /\ task.status = "done" /\ task.approved
        Entry(x) ==
          [projectId |-> loaded[x[1]].projectId, task |-> TaskAt(loaded, x)]
        Expected(positions) == {Entry(x) : x \in positions}
        Exactly(tasks, positions) ==
          /\ Range(tasks) = Expected(positions)
          /\ Len(tasks) = Cardinality(positions)
        OfProject(p) == {x \in TaskPositions(loaded) : x[1] = p}
        InState(positions, state) ==
          {x \in positions : In(TaskAt(loaded, x), state)}
    IN /\ \A x \in TaskPositions(loaded) :
            Cardinality({s \in StateFilters : In(TaskAt(loaded, x), s)}) = 1
       /\ \A p \in DOMAIN loaded :
            /\ \A s \in StateFilters :
                 \A r \in {listCommand(Mgr(1), file, loaded[p].projectId, s),
                            listTasks(Mgr(1), file, loaded[p].projectId, s)} :
                   /\ r.ret.status = "success"
                   /\ Exactly(r.ret.tasks, InState(OfProject(p), s))
            /\ \A r \in {listCommand(Mgr(1), file, loaded[p].projectId, "all"),
                          listCommand(Mgr(1), file, loaded[p].projectId,
                                      Undefined),
                          listTasks(Mgr(1), file, loaded[p].projectId,
                                    Undefined)} :
                 /\ r.ret.status = "success"
                 /\ Exactly(r.ret.tasks, OfProject(p))
       /\ \A s \in StateFilters :
            \A r \in {listTasks(Mgr(1), file, NoProject, s)} :
              /\ r.ret.status = "success"
              /\ Exactly(r.ret.tasks, InState(TaskPositions(loaded), s))
       /\ \A r \in {listTasks(Mgr(1), file, NoProject, Undefined)} :
            /\ r.ret.status = "success"
            /\ Exactly(r.ret.tasks, TaskPositions(loaded))

\* The list command has listed the pending_approval tasks of a project that
\* also holds an approved task: one task, done and not approved.
C29_Witness ==
  /\ result.op = "list"
  /\ result.status = "success"
  /\ Len(result.tasks) = 1
  /\ result.tasks[1].task.status = "done"
  /\ ~result.tasks[1].task.approved
  /\ \E p \in DOMAIN data[1] :
       /\ data[1][p].projectId = result.tasks[1].projectId
       /\ Len(data[1][p].tasks) = 2
       /\ \E t \in DOMAIN data[1][p].tasks :
            data[1][p].tasks[t].status = "done" /\ data[1][p].tasks[t].approved

\* C30: every task created by create_project or add_tasks_to_project starts
\* with status not started, approved false and completedDetails empty, and
\* every project created by create_project starts with completed false.
C30_InitialValues ==
  \A loaded \in {loadTasks(Mgr(1), file).data} :
    LET Initial(task) ==
          /\ task.status = "not started"
          /\ task.approved = FALSE
          /\ task.completedDetails = ""
    IN \A tasks \in WideInputs.lists :
         /\ \A r \in {handleProjectToolCreate(Mgr(1), file,
                         [initialPrompt |-> "p", tasks |-> tasks,
                          projectPlan |-> Undefined,
                          autoApprove |-> Undefined])} :
              /\ r.ret.status = "planned"
              /\ Len(r.ms.data) = Len(loaded) + 1
              /\ r.file.projects = r.ms.data
              /\ LET proj == r.ms.data[Len(r.ms.data)]
                 IN /\ proj.completed = FALSE
                    /\ Len(proj.tasks) = Len(tasks)
                    /\ \A i \in DOMAIN proj.tasks : Initial(proj.tasks[i])
         /\ \A p \in DOMAIN loaded :
              \A r \in {addTasksToProject(Mgr(1), file, loaded[p].projectId,
                                          tasks)} :
                r.ret.status = "tasks_added" =>
                  LET before == loaded[p].tasks
                      after == r.ms.data[p].tasks
                  IN /\ r.file.projects = r.ms.data
                     /\ Len(after) = Len(before) + Len(tasks)
                     /\ SubSeq(after, 1, Len(before)) = before
                     /\ \A i \in Len(before) + 1 .. Len(after) :
                          Initial(after[i])

\* add_tasks_to_project has added the newest task after a done one: it is
\* not started, unapproved and without completedDetails.
C30_Witness ==
  /\ result.op = "add_tasks_to_project"
  /\ result.status = "tasks_added"
  /\ \E p \in DOMAIN data[1] :
       /\ ~data[1][p].completed
       /\ Len(data[1][p].tasks) = 2
       /\ data[1][p].tasks[1].status = "done"
       /\ data[1][p].tasks[2] =
            [id |-> taskId(taskCounter[1]), title |-> "a",
             description |-> "x", status |-> "not started",
             approved |-> FALSE, completedDetails |-> ""]

\* C31: the relative order of the tasks of a project never changes.  Every
\* mutating call leaves the tasks that a project keeps in the order they
\* had; add_tasks_to_project appends the new tasks after the existing ones
\* in the order given; delete_task removes one task and keeps the others in
\* place; the order is the same after a save and a reload.
C31_OrderKept ==
  \A loaded \in {loadTasks(Mgr(1), file).data} :
    LET Ids(tasks) == [i \in DOMAIN tasks |-> tasks[i].id]
        Kept(tasks, others) ==
          SelectSeq(Ids(tasks), LAMBDA id : id \in Range(Ids(others)))
        SameOrder(before, after) ==
          \A b \in DOMAIN before, a \in DOMAIN after :
            before[b].projectId = after[a].projectId =>
              Kept(before[b].tasks, after[a].tasks)
                = Kept(after[a].tasks, before[b].tasks)
        calls ==
          MutatingCalls([WideInputs EXCEPT
                           !.texts = {[title |-> "b", description |-> "y"]}])
        twoTasks ==
          {<<[title |-> "a", description |-> "x"],
             [title |-> "b", description |-> "y"]>>,
           <<[title |-> "b", description |-> "y"],
             [title |-> "a", description |-> "x"]>>}
    IN /\ data[1] = loaded
       /\ \A call \in calls :
            \A r \in {Invoke(Mgr(1), file, call)} :
              /\ SameOrder(loaded, r.ms.data)
              /\ r.file.projects = r.ms.data \/ r.file = file
       /\ \A p \in DOMAIN loaded, tasks \in twoTasks :
            \A r \in {addTasksToProject(Mgr(1), file, loaded[p].projectId,
                                        tasks)} :
              r.ret.status = "tasks_added" =>
                LET before == loaded[p].tasks
                    after == r.ms.data[p].tasks
                IN /\ Len(after) = Len(before) + 2
                   /\ SubSeq(after, 1, Len(before)) = before
                   /\ \A i \in 1..2 :
                        /\ after[Len(before) + i].title = tasks[i].title
                        /\ after[Len(before) + i].description
                             = tasks[i].description
       /\ \A x \in TaskPositions(loaded) :
            \A r \in {deleteTask(Mgr(1), file, loaded[x[1]].projectId,
                                  TaskAt(loaded, x).id)} :
              r.ret.status = "task_deleted" =>
                r.ms.data[x[1]].tasks = RemoveAt(loaded[x[1]].tasks, x[2])
       /\ loadTasks(Mgr(1), saveTasks(Mgr(1), file)).data = data[1]

\* The first of two tasks was deleted; the project keeps the second.
C31_Witness ==
  /\ result.op = "delete_task"
  /\ result.status = "task_deleted"
  /\ Len(data[1]) = 1
  /\ Len(data[1][1].tasks) = 1
  /\ data[1][1].tasks[1].id = taskId(2)
  /\ taskCounter[1] = 2

\* C32, in every state: a task with status done has non-empty
\* completedDetails.
C32_DoneHasDetails ==
  \A x \in TaskPositions(data[1]) :
    TaskAt(data[1], x).status = "done"
      => TaskAt(data[1], x).completedDetails # ""

\* C32, in every step: completedDetails of a task stays empty unless the
\* step leaves the task done, so a task that has never been done has empty
\* completedDetails.
C32_EmptyUntilDone ==
  \A z \in SameTask(data[1], data'[1]) :
    (/\ TaskAt(data[1], z[1]).completedDetails = ""
     /\ TaskAt(data'[1], z[2]).status # "done")
    => TaskAt(data'[1], z[2]).completedDetails = ""

\* C32: in every reachable state a done task has non-empty completedDetails
\* and a task that has never been done has empty completedDetails.
C32_CompletedDetails == []C32_DoneHasDetails /\ [][C32_EmptyUntilDone]_vars

\* C33: a project or task identifier, once allocated, is never allocated
\* again: every identifier that a step brings into the file differs from
\* every identifier the file has held before, also after the project or task
\* with the highest suffix was deleted.
C33_NeverAllocatedAgain ==
  [][\A id \in IdsOf(file'.projects) \ IdsOf(file.projects) :
       id \notin allocated]_vars

\* C34, in every state: no two projects share a projectId and no two tasks
\* share an id, in the file and in the memory of either manager.
C34_Unique ==
  /\ UniqueIds(file.projects)
  /\ \A m \in Mgrs : UniqueIds(data[m])

\* C34, in every step: the identifiers a call brings into the file were
\* never in it before, and the tasks it brings in have as many distinct ids
\* as there are tasks.
C34_FreshIds ==
  /\ \A id \in IdsOf(file'.projects) \ IdsOf(file.projects) :
       id \notin allocated
  /\ Cardinality(TaskSuffixes(file'.projects))
       - Cardinality(TaskSuffixes(file.projects))
     = Cardinality(TaskPositions(file'.projects))
       - Cardinality(TaskPositions(file.projects))

\* C34: with two managers on one file whose create_project and
\* add_tasks_to_project calls run one whole operation at a time, no two
\* projects receive the same projectId, no two tasks the same id, and the
\* tasks allocated in one operation receive pairwise distinct ids.
C34_DistinctIds == []C34_Unique /\ [][C34_FreshIds]_vars

\* Manager 2 has created the second project with two tasks while manager 1
\* still holds only the first.
C34_Witness ==
  /\ result.op = "create_project"
  /\ Len(data[1]) = 1 /\ data[1][1].projectId = projId(1)
  /\ Len(data[2]) = 2 /\ data[2][2].projectId = projId(2)
  /\ Len(data[2][2].tasks) = 2
  /\ data[2][2].tasks[1].id # data[2][2].tasks[2].id
  /\ file.projects = data[2]

C36_Frame ==
  LET Without(projects, x) ==
        [projects EXCEPT ![x[1]].tasks = RemoveAt(@, x[2])]
      calls(projectId, id) ==
        {CallOf("update_task", projectId, id, <<>>, u) : u \in UpdateInputs}
        \cup {CallOf("approve_task", projectId, id, <<>>, NoUpdate),
              CallOf("delete_task", projectId, id, <<>>, NoUpdate)}
  IN \A x \in TaskPositions(data[1]) :
       \A call \in calls(data[1][x[1]].projectId, TaskAt(data[1], x).id) :
         \A r \in {Invoke(Mgr(1), file, call)} :
           r.ret.status \in {"task_updated", "task_approved",
                             "already_approved", "task_deleted"} =>
             /\ file.projects = data[1]
             /\ r.file.projects = r.ms.data
             /\ IF call.op = "delete_task"
                THEN r.ms.data = Without(data[1], x)
                ELSE /\ TaskPositions(r.ms.data) = TaskPositions(data[1])
                     /\ Without(r.ms.data, x) = Without(data[1], x)

\* A task has just been approved in a project of two done tasks, next to
\* another project; the other task is still unapproved.
C36_Witness ==
  /\ result.op = "approve_task"
  /\ result.status = "task_approved"
  /\ Len(file.projects) = 2
  /\ \E p \in DOMAIN file.projects :
       /\ Len(file.projects[p].tasks) = 2
       /\ \A t \in 1..2 : file.projects[p].tasks[t].status = "done"
       /\ \E t \in 1..2 :
            /\ file.projects[p].tasks[t].approved
            /\ ~file.projects[p].tasks[3 - t].approved

\* C37: get_next_task, openTaskDetails and list_projects never write the
\* backing file: in every reachable state, whatever the file holds, the file
\* after each of them is the file before it.
C37_ReadsDoNotWrite ==
  /\ \A projectId \in ReadInputs.projIds :
       getNextTask(Mgr(1), file, projectId).file = file
  /\ \A id \in ReadInputs.taskIds :
       openTaskDetails(Mgr(1), file, id).file = file
  /\ listProjects(Mgr(1), file).file = file

\* list_projects has just listed a project with a done task, and the file
\* still holds it.
C37_Witness ==
  /\ result.op = "list_projects"
  /\ result.status = "projects_listed"
  /\ \E p \in DOMAIN result.projects :
       /\ result.projects[p].completedTasks = 1
       /\ result.projects[p].projectId = file.projects[p].projectId
       /\ file.projects[p].tasks[1].status = "done"

\* C38: an operation that returns a failure performs no save.  Every call
\* of a mutating operation that returns an error leaves the file as it was;
\* and the calls on a project or task that is not stored, approve on a task
\* that is not done, finalize with a task that is not done or not approved,
\* add on a completed project and delete on a done task all return an error.
C38_FailuresDoNotSave ==
  LET Fails(call) ==
        \A r \in {Invoke(Mgr(1), file, call)} :
          r.ret.status = "error" /\ r.file = file
      stored == {data[1][p].projectId : p \in DOMAIN data[1]}
      tasksOf(p) == {data[1][p].tasks[t].id : t \in DOMAIN data[1][p].tasks}
  IN /\ \A call \in MutatingCalls(MainInputs) :
          \A r \in {Invoke(Mgr(1), file, call)} :
            r.ret.status = "error" =>
              /\ r.file = file
              /\ r.ms.data \in {data[1], loadTasks(Mgr(1), file).data}
     /\ \A call \in MutatingCalls(MainInputs) :
          call.op # "create_project" /\ call.projectId \notin stored
            => Fails(call)
     /\ \A p \in DOMAIN data[1] :
          LET projectId == data[1][p].projectId
              tasks == data[1][p].tasks
          IN /\ \A id \in MainInputs.taskIds \ tasksOf(p) :
                  /\ Fails(CallOf("approve_task", projectId, id, <<>>,
                                  NoUpdate))
                  /\ Fails(CallOf("delete_task", projectId, id, <<>>,
                                  NoUpdate))
                  /\ \A u \in MainInputs.updates :
                       Fails(CallOf("update_task", projectId, id, <<>>, u))
             /\ \A t \in DOMAIN tasks :
                  /\ tasks[t].status # "done" =>
                       Fails(CallOf("approve_task", projectId, tasks[t].id,
                                    <<>>, NoUpdate))
                  /\ tasks[t].status = "done" =>
                       Fails(CallOf("delete_task", projectId, tasks[t].id,
                                    <<>>, NoUpdate))
                  /\ tasks[t].status # "done" \/ ~tasks[t].approved =>
                       Fails(CallOf("finalize_project", projectId, taskId(0),
                                    <<>>, NoUpdate))
             /\ data[1][p].completed =>
                  \A list \in MainInputs.lists :
                    Fails(CallOf("add_tasks_to_project", projectId, taskId(0),
                                 list, NoUpdate))

\* finalize_project has just been refused on a project whose task is done
\* and not approved; the project in the file is not completed.
C38_Witness ==
  /\ result.op = "finalize_project"
  /\ result.status = "error"
  /\ result.message = <<"Not all done tasks are approved.">>
  /\ \E p \in DOMAIN file.projects :
       /\ ~file.projects[p].completed
       /\ \E t \in DOMAIN file.projects[p].tasks :
            /\ file.projects[p].tasks[t].status = "done"
            /\ ~file.projects[p].tasks[t].approved

\* C40: update_task, approve_task and delete_task called with the identifier
\* of a stored project and the identifier of a task that only another project
\* holds return a task-not-found error and change nothing, in memory or in
\* the file.
C40_TaskOfOtherProject ==
  LET idsOf(p) == {data[1][p].tasks[t].id : t \in DOMAIN data[1][p].tasks}
      NotFound(call, message) ==
        \A r \in {Invoke(Mgr(1), file, call)} :
          /\ r.ret.status = "error"
          /\ r.ret.message = <<message>>
          /\ r.ms.data = data[1]
          /\ r.file = file
  IN \A p \in DOMAIN data[1], q \in DOMAIN data[1] :
       \A id \in idsOf(q) \ idsOf(p) :
         LET projectId == data[1][p].projectId
         IN /\ \A u \in UpdateInputs :
                 NotFound(CallOf("update_task", projectId, id, <<>>, u),
                          "Task not found:")
            /\ NotFound(CallOf("approve_task", projectId, id, <<>>, NoUpdate),
                        "Task not found")
            /\ NotFound(CallOf("delete_task", projectId, id, <<>>, NoUpdate),
                        "Task not found")

\* delete_task has just answered that the task is not found, while each of
\* two projects holds one task and every task identifier the caller can pass
\* is that of a stored task: the one passed is held by the other project.
C40_Witness ==
  /\ result.op = "delete_task"
  /\ result.status = "error"
  /\ result.message = <<"Task not found">>
  /\ Len(file.projects) = 2
  /\ \A p \in 1..2 : Len(file.projects[p].tasks) = 1
  /\ {file.projects[p].tasks[1].id : p \in 1..2} = WideInputs.taskIds
  /\ file.projects[1].tasks[1].status # "done"
  /\ file.projects[2].tasks[1].status # "done"

\* C39: with one manager, saves that succeed and no add or delete calls, the
\* workflow started on a project that is not completed and has a task
\* (take the task of get_next_task, move it to in progress if it is not
\* started, move it to done with completedDetails, approve it, repeat)
\* eventually has get_next_task report that no task is next, and then,
\* the remaining done tasks approved, has finalize_project succeed.
C39_WorkflowFinishes ==
  /\ ~Idle ~> (/\ "workflow" \in DOMAIN result
               /\ result.op = "get_next_task"
               /\ result.status = "all_tasks_done")
  /\ ~Idle ~> (/\ "workflow" \in DOMAIN result
               /\ result.op = "finalize_project"
               /\ result.status = "project_approved_complete"
               /\ \E p \in DOMAIN file.projects :
                    /\ file.projects[p].projectId = result.workflow
                    /\ file.projects[p].completed)

\* The workflow has finalized a project of two tasks.
C39_Witness ==
  /\ "workflow" \in DOMAIN result
  /\ result.op = "finalize_project"
  /\ result.status = "project_approved_complete"
  /\ \E p \in DOMAIN file.projects :
       /\ file.projects[p].completed
       /\ Len(file.projects[p].tasks) = 2

====
